---- MODULE Spec2Model ----
(***************************************************************************)
(* Purchase-to-thread reconciliation and delivery engine of the GGSel      *)
(* seller helper (BotService and the managers it owns).                    *)
(*                                                                         *)
(* Python values are modelled with one type per field: an absent value     *)
(* (None, 0 or the empty string, all falsy in Python) is 0.  Time is the   *)
(* integer number of seconds read by datetime.now().                      *)
(***************************************************************************)
EXTENDS Integers, Sequences, FiniteSets, TLC

\* ---------------------------------------------------------------- bounds
Invoices == {1, 2}
MsgIds == {1}
Durations == {1}
ShortSteps == {2, 30}
LongSteps == {30, 300}
MaxTicks == 2
MaxThreads == 3
MaxHistory == 3
MaxDeletes == 1
MaxRestarts == 1
MaxRounds == 3
MaxHandled == 2
CleanupDays == {0, 30}
HotSize == 1
ColdEvery == 2

\* ------------------------------------------------------ program constants
SafetyMargin == 5
GraceSeconds == 30
FailedCooldown == 300
PollFailedCooldown == 600
NotAForum == 0 - 1
DaySeconds == 86400

None == 0

VARIABLES
    now,                          \* datetime.now()
    ticks,                        \* number of clock advances so far
    chat_messages,                \* marketplace side: messages of each purchase chat
    processed_messages,           \* MessageManager.processed_messages (= processed_messages.json)
    pending_messages,             \* BotService.pending_messages
    message_flood_control_until,  \* BotService.message_flood_control_until
    thread_posts,                 \* platform side: bag of <<thread, text>> accepted from send_message_with_cooldown
    post_count,                   \* platform side: accepted posts per (channel, message) identity
    deliver_calls,                \* process_single_message_check calls per identity, made with no cooldown active and the platform accepting posts
    last_send,                    \* outcome of the latest send_message_with_cooldown call
    processed_purchases,          \* PurchaseManager.processed_purchases (= processed_purchases.json)
    last_add,                     \* the latest add_purchase call: invoice and returned value
    topics,                       \* TopicManager.topics (= topics.json)
    pending_topics,               \* BotService.pending_topics
    pending_topics_file,          \* pending_topics.json
    flood_control_until,          \* BotService.flood_control_until
    failed_topics,                \* BotService.failed_topics
    next_thread,                  \* platform side: next message_thread_id to be issued
    live_threads,                 \* platform side: threads that exist
    thread_owner,                 \* platform side: invoice each issued thread was opened for
    window_call,                  \* a create_forum_topic call was made while the creation cooldown was active
    last_flood,                   \* the latest backpressure answer of create_forum_topic: time and duration
    last_create,                  \* the latest create_forum_topic call: invoice and the platform's answers
    greeted,                      \* marketplace side: greetings sent to the buyer of each invoice
    removed_missing,              \* invoices whose ThreadEntry was removed as missing
    regreeted,                    \* invoices greeted again after their ThreadEntry was removed as missing
    skip_greeted,                 \* a creation with skip_greeting greeted the buyer
    first_message_enabled,        \* AutoResponder.should_send_first_message()
    poll,                         \* purchase_checker task
    mon,                          \* monitor_messages task
    sync,                         \* sync_topics_with_purchases task
    hist,                         \* /history handler
    history_runs,                 \* number of /history commands handled so far
    deletes,                      \* number of threads the operator deleted so far
    restarts,                     \* number of process restarts so far
    messages_file,                \* processed_messages.json
    check_round,                  \* the latest cycle of monitor_messages: its number and the chats it checks
    last_error,                   \* the task in which the latest unexpected error was raised
    running,                      \* BotService.running
    topic_message,                \* _handle_topic_message_async task, and the result of its latest send to the buyer
    last_auth_time,               \* BotService.last_auth_time
    auth_wait,                    \* per task: current_time of its ensure_ggsel_auth call whose login is in flight
    last_login,                   \* the latest login that returned: the calling task and the result
    checks,                       \* the check_with_semaphore / _check_single_chat tasks and the chat of each
    chat_locks,                   \* BotService.chat_locks: the holder of each lock created so far
    last_probe,                   \* the latest check_topic_exists call: thread, error text and answer
    request,                      \* GGSelAPI._make_request: position of the call in progress and the latest result
    current_url_index,            \* GGSelAPI.current_url_index
    review_source,                \* marketplace side: the buyer's review
    processed_reviews,            \* BotService.processed_reviews (= processed_reviews.json)
    review_fetch,                 \* the calls of check_new_reviews: its two checkers and what they hold
    announced,                    \* platform side: review announcements posted per content
    last_update                   \* the latest message update of a thread handed to TelegramBot._handle_topic_message

msgVars == <<processed_messages, messages_file, pending_messages,
             message_flood_control_until, thread_posts, post_count, last_send>>

queueVars == <<pending_topics, pending_topics_file, flood_control_until>>

platformVars == <<failed_topics, next_thread, live_threads, thread_owner, window_call,
                  last_flood, last_create, greeted, regreeted, skip_greeted>>

topicVars == <<topics, queueVars, platformVars>>

authVars == <<last_auth_time, auth_wait, last_login>>

checkVars == <<checks, chat_locks>>

reviewVars == <<review_source, processed_reviews, review_fetch, announced>>

extVars == <<authVars, checkVars, last_probe, request, current_url_index, reviewVars, last_update>>

vars == <<now, ticks, chat_messages, msgVars, deliver_calls, processed_purchases, last_add,
          topicVars, removed_missing, first_message_enabled, poll, mon, sync, hist,
          history_runs, deletes, restarts, check_round, last_error, running, topic_message,
          extVars>>

Identities == Invoices \X MsgIds

Truthy(x) == x # None

\* datetime.now() < until, for an until that may be None
Active(until, t) == Truthy(until) /\ t < until

\* ------------------------------------------------------------ Dedup Ledger

\* f"{chat_id}_{message_id}"
\* the key made of the message_id alone
message_key_id_only(chat_id, message_id) == <<None, message_id>>

MessageKey(chat_id, message_id) == <<chat_id, message_id>>

is_message_processed(ledger, chat_id, message_id) ==
    MessageKey(chat_id, message_id) \in DOMAIN ledger

\* Returns the new ledger; the Python method returns TRUE exactly when the
\* ledger changed.
add_processed_message(ledger, chat_id, message_id, content, timestamp, t) ==
    LET key == MessageKey(chat_id, message_id) IN
    IF key \in DOMAIN ledger
    THEN ledger
    ELSE [k \in DOMAIN ledger \cup {key} |->
            IF k = key
            THEN [chat_id |-> chat_id, message_id |-> message_id, content |-> content,
                  timestamp |-> timestamp, sent_to_telegram |-> FALSE,
                  processed_at |-> t, sent_at |-> None]
            ELSE ledger[k]]

\* mark_message_sent that stamps the whole record with the time of the send
mark_message_sent_restamped(ledger, chat_id, message_id, t) ==
    LET key == MessageKey(chat_id, message_id) IN
    IF key \in DOMAIN ledger
    THEN [ledger EXCEPT ![key].sent_to_telegram = TRUE, ![key].sent_at = t,
                        ![key].processed_at = t]
    ELSE ledger

mark_message_sent(ledger, chat_id, message_id, t) ==
    LET key == MessageKey(chat_id, message_id) IN
    IF key \in DOMAIN ledger
    THEN [ledger EXCEPT ![key].sent_to_telegram = TRUE, ![key].sent_at = t]
    ELSE ledger

\* save_messages that leaves the file as it was
save_messages_skipped(ledger, file) == file

\* save_messages writes the whole ledger to processed_messages.json, and
\* load_messages reads it back; a missing file gives the empty ledger
save_messages(ledger, file) == ledger

load_messages(file) == file

\* --------------------------------------------------- texts sent to threads
ContentText(c, m) == [kind |-> "content", a |-> c, b |-> m]
HistoryText(c, m) == [kind |-> "history", a |-> c, b |-> m]     \* "📜 " + content
SummaryText(i, skip) == [kind |-> IF skip THEN "restored" ELSE "summary", a |-> i, b |-> 0]
GreetingText == [kind |-> "greeting", a |-> 0, b |-> 0]
GreetingNote == [kind |-> "greeting_note", a |-> 0, b |-> 0]    \* "📤 " + greeting
ErrorNote == [kind |-> "error_note", a |-> 0, b |-> 0]         \* "❌ Ошибка отправки"

\* TelegramBot.send_message and TelegramBot.create_topic results
OkOut == [kind |-> "ok", cooldown |-> 0]
FailOut == [kind |-> "fail", cooldown |-> 0]
SendOutcomes == {OkOut, FailOut} \cup {[kind |-> "flood", cooldown |-> d] : d \in Durations}
CreateOutcomes == SendOutcomes \cup {[kind |-> "not_forum", cooldown |-> 0]}

\* ------------------------------------------------------ Rate-limit governor
\* The message-send state the governor works on.
MsgState == [ledger |-> processed_messages, pend |-> pending_messages,
             until |-> message_flood_control_until, posts |-> thread_posts,
             count |-> post_count,
             last |-> last_send]

\* an item of pending_messages; its timestamp is never read
PendingItem(text, topic_id, chat_id, message_id) ==
    [text |-> text, topic_id |-> topic_id, chat_id |-> chat_id, message_id |-> message_id]

AddPost(posts, topic_id, text) ==
    LET p == <<topic_id, text>> IN
    IF p \in DOMAIN posts
    THEN [posts EXCEPT ![p] = @ + 1]
    ELSE [q \in DOMAIN posts \cup {p} |-> IF q = p THEN 1 ELSE posts[q]]

Copies(posts, topic_id, text) ==
    IF <<topic_id, text>> \in DOMAIN posts THEN posts[<<topic_id, text>>] ELSE 0

\* What is recorded of a call of send_message_with_cooldown on the state st:
\* its arguments, whether the cooldown was active, whether the identity was
\* already marked sent, the returned value (result), whether the platform
\* was called and the backpressure it answered with.
SendCall(st, item, t, result, called, flood) ==
    LET key == MessageKey(item.chat_id, item.message_id) IN
    [item |-> item, active |-> Active(st.until, t),
     dedup |-> Truthy(item.chat_id) /\ Truthy(item.message_id) /\ key \in DOMAIN st.ledger
               /\ st.ledger[key].sent_to_telegram,
     result |-> result, called |-> called, flood |-> flood]

\* send_message_with_cooldown without the check of the cooldown
send_ignoring_cooldown(st, text, topic_id, chat_id, message_id, out, t) ==
    LET key == MessageKey(chat_id, message_id)
        ident == Truthy(chat_id) /\ Truthy(message_id)
        item == PendingItem(text, topic_id, chat_id, message_id)
    IN
    IF ident /\ key \in DOMAIN st.ledger /\ st.ledger[key].sent_to_telegram
    THEN [st EXCEPT !.last = SendCall(st, item, t, TRUE, FALSE, 0)]
    ELSE IF out.kind = "ok"
    THEN [st EXCEPT !.until = None,
                    !.posts = AddPost(@, topic_id, text),
                    !.count = IF ident THEN [@ EXCEPT ![key] = @ + 1] ELSE @,
                    !.ledger = IF ident THEN mark_message_sent(@, chat_id, message_id, t) ELSE @,
                    !.last = SendCall(st, item, t, TRUE, TRUE, 0)]
    ELSE IF Truthy(out.cooldown)
    THEN [st EXCEPT !.until = t + out.cooldown + SafetyMargin,
                    !.pend = Append(@, item),
                    !.last = SendCall(st, item, t, FALSE, TRUE, out.cooldown)]
    ELSE [st EXCEPT !.until = None, !.last = SendCall(st, item, t, FALSE, TRUE, 0)]

\* send_message_with_cooldown(text, topic_id, chat_id, message_id) at time t,
\* where out is what TelegramBot.send_message answers if it is called.
send_message_with_cooldown(st, text, topic_id, chat_id, message_id, out, t) ==
    LET key == MessageKey(chat_id, message_id)
        ident == Truthy(chat_id) /\ Truthy(message_id)
        item == PendingItem(text, topic_id, chat_id, message_id)
    IN
    IF ident /\ key \in DOMAIN st.ledger /\ st.ledger[key].sent_to_telegram
    THEN [st EXCEPT !.last = SendCall(st, item, t, TRUE, FALSE, 0)]
    ELSE IF Active(st.until, t)
    THEN [st EXCEPT !.pend = Append(@, item), !.last = SendCall(st, item, t, FALSE, FALSE, 0)]
    ELSE IF out.kind = "ok"
    THEN [st EXCEPT !.until = None,
                    !.posts = AddPost(@, topic_id, text),
                    !.count = IF ident THEN [@ EXCEPT ![key] = @ + 1] ELSE @,
                    !.ledger = IF ident THEN mark_message_sent(@, chat_id, message_id, t) ELSE @,
                    !.last = SendCall(st, item, t, TRUE, TRUE, 0)]
    ELSE IF Truthy(out.cooldown)
    THEN [st EXCEPT !.until = t + out.cooldown + SafetyMargin,
                    !.pend = Append(@, item),
                    !.last = SendCall(st, item, t, FALSE, TRUE, out.cooldown)]
    ELSE [st EXCEPT !.until = None, !.last = SendCall(st, item, t, FALSE, TRUE, 0)]

\* The action conjunct that installs a message-send state.
SetMsgState(st) ==
    /\ processed_messages' = st.ledger
    /\ messages_file' = IF st.ledger = processed_messages
                        THEN messages_file
                        ELSE save_messages(st.ledger, messages_file)
    /\ pending_messages' = st.pend
    /\ message_flood_control_until' = st.until
    /\ thread_posts' = st.posts
    /\ post_count' = st.count
    /\ last_send' = st.last

\* -------------------------------------------------------- Purchase Registry
Email(i) == "a@x.com"

\* parse_purchase_response: a Purchase with every dataclass field
Purchase(i, t) == [invoice_id |-> i, buyer_email |-> Email(i), processed_at |-> t, complete |-> TRUE]

\* the placeholder object process_new_purchase builds when the detail fetch
\* fails: it has no item_id, content_id, cart_uid and invoice_state attribute
DummyPurchase(i, t) == [invoice_id |-> i, buyer_email |-> "", processed_at |-> t, complete |-> FALSE]

is_purchase_processed(reg, i) == i \in DOMAIN reg

\* add_purchase returns TRUE exactly when it stored the record.  Reading a
\* missing attribute raises inside the try block: nothing is stored and the
\* method returns FALSE.
add_purchase_ok(reg, p) == p.invoice_id \notin DOMAIN reg /\ p.complete

\* add_purchase without the lookup of the invoice in the registry
add_purchase_overwrite(reg, p) ==
    IF p.complete
    THEN [k \in DOMAIN reg \cup {p.invoice_id} |->
            IF k = p.invoice_id
            THEN [invoice_id |-> p.invoice_id, buyer_email |-> p.buyer_email,
                  processed_at |-> p.processed_at]
            ELSE reg[k]]
    ELSE reg

add_purchase(reg, p) ==
    IF add_purchase_ok(reg, p)
    THEN [k \in DOMAIN reg \cup {p.invoice_id} |->
            IF k = p.invoice_id
            THEN [invoice_id |-> p.invoice_id, buyer_email |-> p.buyer_email,
                  processed_at |-> p.processed_at]
            ELSE reg[k]]
    ELSE reg

\* cleanup_old_purchases that removes every record
cleanup_all_purchases(reg, days, t) == <<>>

\* cleanup_old_purchases(days) at time t removes the records processed before
\* t - days * 24 * 60 * 60 and keeps the others
cleanup_old_purchases(reg, days, t) ==
    LET keys_to_remove == {k \in DOMAIN reg : reg[k].processed_at < t - days * DaySeconds}
    IN [k \in DOMAIN reg \ keys_to_remove |-> reg[k]]

\* --------------------------------------------------------- Thread Directory
\* f"purchase_{invoice_id}"
TopicKey(i) == <<"purchase", i>>

CustomerId(p) == IF p.buyer_email # "" THEN p.buyer_email ELSE "customer"

\* add_topic_for_purchase that does not store the entry
add_topic_dropped(tp, p, topic_id) == tp

\* add_topic_for_purchase that files the purchase under the entry its buyer
\* already has
add_topic_by_customer(tp, p, topic_id) ==
    LET same == {k \in DOMAIN tp : tp[k].email = p.buyer_email}
        key == IF same = {} THEN TopicKey(p.invoice_id) ELSE CHOOSE k \in same : TRUE
    IN
    [k \in DOMAIN tp \cup {key} |->
        IF k = key
        THEN [invoice_id |-> p.invoice_id, customer_id |-> CustomerId(p),
              email |-> p.buyer_email, topic_id |-> topic_id]
        ELSE tp[k]]

add_topic_for_purchase(tp, p, topic_id) ==
    LET key == TopicKey(p.invoice_id) IN
    [k \in DOMAIN tp \cup {key} |->
        IF k = key
        THEN [invoice_id |-> p.invoice_id, customer_id |-> CustomerId(p),
              email |-> p.buyer_email, topic_id |-> topic_id]
        ELSE tp[k]]

\* Remove(key) of the Thread Directory contract
remove_topic(tp, key) == [k \in DOMAIN tp \ {key} |-> tp[k]]

\* the purchase topics a scan of the directory visits
PurchaseTopics(tp) == {k \in DOMAIN tp : k[1] = "purchase"}

\* The hot set of the tiered check: the n entries of tp created last.  The
\* platform numbers the threads in the order of their creation.
HotSet(tp, n) ==
    {k \in DOMAIN tp :
        Cardinality({j \in DOMAIN tp : tp[j].topic_id > tp[k].topic_id}) < n}

\* check_topics_parallel that checks the hot set alone
checked_topics_hot(tp) ==
    {k \in HotSet(tp, HotSize) : Truthy(tp[k].topic_id) /\ Truthy(tp[k].invoice_id)}

\* the entries check_topics_parallel starts a check for, out of the purchase
\* topics tp that monitor_messages passes to it
CheckedTopics(tp) ==
    {k \in DOMAIN tp : Truthy(tp[k].topic_id) /\ Truthy(tp[k].invoice_id)}

\* create_topic that answers with the id of the first thread of the group
create_topic_stale(out, fresh) ==
    IF out.kind = "ok" THEN [topic_id |-> 1, cooldown |-> None]
    ELSE IF out.kind = "not_forum" THEN [topic_id |-> NotAForum, cooldown |-> None]
    ELSE IF out.kind = "flood" THEN [topic_id |-> None, cooldown |-> out.cooldown]
    ELSE [topic_id |-> None, cooldown |-> None]

\* TelegramBot.create_topic: (message_thread_id, None), (-1, None) when the
\* group is not a forum, (None, cooldown) on flood control, (None, None) otherwise
create_topic(out, fresh) ==
    IF out.kind = "ok" THEN [topic_id |-> fresh, cooldown |-> None]
    ELSE IF out.kind = "not_forum" THEN [topic_id |-> NotAForum, cooldown |-> None]
    ELSE IF out.kind = "flood" THEN [topic_id |-> None, cooldown |-> out.cooldown]
    ELSE [topic_id |-> None, cooldown |-> None]

\* ----------------------------------------------- pending thread creations
PendingTopic(p, t, skip) == [purchase |-> p, timestamp |-> t, skip_greeting |-> skip]

\* _save_pending_topics writes every Purchase field and skip_greeting, not the timestamp
SavePendingTopics(pend) ==
    [k \in 1..Len(pend) |-> [purchase |-> pend[k].purchase, skip_greeting |-> pend[k].skip_greeting]]

\* _load_pending_topics stamps every loaded item with the time of loading
LoadPendingTopics(file, t) ==
    [k \in 1..Len(file) |-> PendingTopic(file[k].purchase, t, file[k].skip_greeting)]

FailedRecently(ft, i, t, window) == Truthy(ft[i]) /\ t - ft[i] < window

\* the break branch without its loop: the items not yet attempted are left out
requeue_dropped(pend, rest) == pend

\* the break branch of process_pending_topics: the items not yet attempted go
\* back to the queue unless an item of the same invoice is already there
RECURSIVE Requeue(_, _)
Requeue(pend, rest) ==
    IF rest = <<>> THEN pend
    ELSE LET t == Head(rest)
             there == \E k \in 1..Len(pend) :
                         pend[k].purchase.invoice_id = t.purchase.invoice_id
         IN Requeue(IF there THEN pend ELSE Append(pend, t), Tail(rest))


\* ------------------------------------------- state of the remaining tasks
AuthInterval == 900

MaxChats == 11

SemaphoreLimit == 10

MaxRequests == 2

MaxReviewRuns == 3

\* the tasks that call ensure_ggsel_auth: monitor_messages,
\* check_new_purchases and reauth_scheduler
AuthTasks == {"monitor", "poller", "reauth"}

NoLogin == [task |-> "none", ok |-> FALSE]

CheckTasks == 1..MaxChats

NoCheck == [pc |-> "none", chat_id |-> None]

NoProbe == [topic_id |-> None, error |-> "none", exists |-> TRUE]

NumUrls == 2

RetriesPerUrl == 3

\* indexes of GGSelAPI.fallback_urls
Urls == 0..(NumUrls - 1)

\* no _make_request call is under way.  sends counts the requests of the
\* latest call per base URL, transient tells that each of them ended in a
\* connection error or a timeout
NoRequest == [pc |-> "idle", url_attempt |-> 0, retry |-> 0, result |-> "none", made |-> 0,
              sends |-> [u \in Urls |-> 0], transient |-> TRUE]

ReviewIds == {1}

\* the review checkers: _check_reviews_by_api and _check_reviews_by_topics
Checkers == {"api", "topics"}

\* the versions of a review: its type and text as the buyer wrote them
\* first (1) and as the buyer changed them (2)
Contents == {1, 2}

\* no review is there
NoReview == [id |-> None, invoice_id |-> None, content |-> None]

\* the calls of check_new_reviews, in the order the monitor starts them
ReviewRuns == 1..MaxReviewRuns

\* a call of check_new_reviews that has not started: where each checker
\* stands, the reviews the feed-wide checker fetched, and the
\* invoice_to_topic mapping the call built
NoFetch == [pc |-> [ch \in Checkers |-> "idle"], reviews |-> NoReview, invoice_to_topic |-> <<>>]

NoUpdate == [topic_id |-> None, command |-> FALSE, is_bot |-> FALSE]

\* BotService.__init__, GGSelAPI.__init__ and an empty processed_reviews.json
ExtInit ==
    /\ last_auth_time = None
    /\ auth_wait = [t \in AuthTasks |-> None]
    /\ last_login = NoLogin
    /\ checks = [k \in CheckTasks |-> NoCheck]
    /\ chat_locks = <<>>
    /\ last_probe = NoProbe
    /\ request = NoRequest
    /\ current_url_index = 0
    /\ review_source = NoReview
    /\ processed_reviews = <<>>
    /\ review_fetch = [r \in ReviewRuns |-> NoFetch]
    /\ announced = [c \in Contents |-> 0]
    /\ last_update = NoUpdate

\* a new process: what __init__ sets is set again, what is on disk or on
\* the other side stays
ExtRestart ==
    /\ last_auth_time' = None
    /\ auth_wait' = [t \in AuthTasks |-> None]
    /\ last_login' = NoLogin
    /\ checks' = [k \in CheckTasks |-> NoCheck]
    /\ chat_locks' = <<>>
    /\ last_probe' = NoProbe
    /\ request' = [NoRequest EXCEPT !.made = request.made]
    /\ current_url_index' = 0
    /\ review_fetch' = [r \in ReviewRuns |-> NoFetch]
    /\ last_update' = NoUpdate
    /\ UNCHANGED <<review_source, processed_reviews, announced>>
\* ------------------------------------------------ create_topic_for_purchase
\* The part before "await asyncio.sleep(2)": the failure cooldown, the
\* creation cooldown (fcu) and the lookup in the directory tp.
\* the gate with one budget for both classes of calls: an active
\* message-send cooldown defers the creation as well
ctfp_gate_one_budget(i, tp, fcu) ==
    IF FailedRecently(failed_topics, i, now, FailedCooldown) THEN "quiet"
    ELSE IF Active(fcu, now) \/ Active(message_flood_control_until, now) THEN "enqueue"
    ELSE IF TopicKey(i) \in DOMAIN tp THEN "exists"
    ELSE "go"

\* the gate without the lookup in the directory
ctfp_gate_no_lookup(i, tp, fcu) ==
    IF FailedRecently(failed_topics, i, now, FailedCooldown) THEN "quiet"
    ELSE IF Active(fcu, now) THEN "enqueue"
    ELSE "go"

CtfpGate(i, tp, fcu) ==
    IF FailedRecently(failed_topics, i, now, FailedCooldown) THEN "quiet"
    ELSE IF Active(fcu, now) THEN "enqueue"
    ELSE IF TopicKey(i) \in DOMAIN tp THEN "exists"
    ELSE "go"

\* The caller's queue, cooldown and file are pend, fcu and file when the call
\* starts.  replay: the call is made by process_pending_topics, which on
\* return looks at flood_control_until and, if it is set, requeues rest and
\* saves the queue.
CtfpBegin(p, skip, tp, pend, fcu, file, replay, rest) ==
    LET gate == CtfpGate(p.invoice_id, tp, fcu)
        pend1 == IF gate = "enqueue" THEN Append(pend, PendingTopic(p, now, skip)) ELSE pend
        fcu1 == IF gate \in {"exists", "go"} THEN None ELSE fcu
        break == replay /\ gate # "go" /\ Truthy(fcu1)
    IN
    /\ pending_topics' = IF break THEN Requeue(pend1, rest) ELSE pend1
    /\ pending_topics_file' = IF break \/ gate = "enqueue"
                              THEN SavePendingTopics(pending_topics')
                              ELSE file
    /\ flood_control_until' = fcu1
    /\ UNCHANGED platformVars

\* whether the greeting branch of create_topic_for_purchase is taken
SendsGreeting(skip) == ~skip /\ first_message_enabled

\* The part after the sleep: the platform call and what follows it.  cout is
\* the answer of create_forum_topic, s1 and s2 the answers to the summary and
\* the greeting note.
CtfpFinish(p, skip, replay, rest, cout, s1, s2) ==
    LET i == p.invoice_id
        res == create_topic(cout, next_thread)
        greet == SendsGreeting(skip)
        st1 == send_message_with_cooldown(MsgState, SummaryText(i, skip), res.topic_id,
                                          None, None, s1, now)
        st2 == IF greet
               THEN send_message_with_cooldown(st1, GreetingNote, res.topic_id,
                                               None, None, s2, now)
               ELSE st1
        flood == ~Truthy(res.topic_id) /\ Truthy(res.cooldown)
        pend1 == IF flood
                 THEN Append(pending_topics, PendingTopic(p, now, skip))
                 ELSE pending_topics
        fcu1 == IF flood THEN now + res.cooldown + SafetyMargin ELSE flood_control_until
        break == replay /\ Truthy(fcu1)
    IN
    /\ cout.kind = "ok" => next_thread <= MaxThreads
    /\ ~Truthy(res.topic_id) => s1 = OkOut
    /\ ~(Truthy(res.topic_id) /\ greet) => s2 = OkOut
    /\ window_call' = (window_call \/ Active(flood_control_until, now))
    /\ pending_topics' = IF break THEN Requeue(pend1, rest) ELSE pend1
    /\ pending_topics_file' = IF break \/ flood
                              THEN SavePendingTopics(pending_topics')
                              ELSE pending_topics_file
    /\ flood_control_until' = fcu1
    /\ last_flood' = IF flood THEN [at |-> now, d |-> res.cooldown] ELSE last_flood
    /\ last_create' = [invoice_id |-> i, answer |-> cout.kind,
                       post |-> IF Truthy(res.topic_id) THEN s1.kind ELSE "none"]
    /\ failed_topics' = IF ~Truthy(res.topic_id) /\ ~flood
                        THEN [failed_topics EXCEPT ![i] = now]
                        ELSE failed_topics
    /\ IF Truthy(res.topic_id)
       THEN /\ topics' = add_topic_for_purchase(topics, p, res.topic_id)
            /\ next_thread' = IF cout.kind = "ok" THEN next_thread + 1 ELSE next_thread
            /\ live_threads' = IF cout.kind = "ok" THEN live_threads \cup {res.topic_id}
                               ELSE live_threads
            /\ thread_owner' = IF cout.kind = "ok"
                               THEN [t \in DOMAIN thread_owner \cup {res.topic_id} |->
                                       IF t = res.topic_id THEN i ELSE thread_owner[t]]
                               ELSE thread_owner
            /\ SetMsgState(st2)
            /\ greeted' = IF greet THEN [greeted EXCEPT ![i] = @ + 1] ELSE greeted
            /\ regreeted' = IF greet /\ i \in removed_missing
                            THEN regreeted \cup {i} ELSE regreeted
            /\ skip_greeted' = (skip_greeted \/ (skip /\ greet))
       ELSE UNCHANGED <<topics, next_thread, live_threads, thread_owner, msgVars,
                        greeted, regreeted, skip_greeted>>

\* ------------------------------------------------------------------ tasks
NoPurchase == [invoice_id |-> 0, buyer_email |-> "", processed_at |-> 0, complete |-> FALSE]
NoPending == PendingTopic(NoPurchase, 0, FALSE)

PollIdle == [pc |-> "idle", inv |-> 0, purchase |-> NoPurchase]
MonAt(pc, boot) == [pc |-> pc, boot |-> boot, msgs |-> <<>>, tps |-> <<>>, cur |-> NoPending]
SyncAt(pc, due) == [pc |-> pc, due |-> due, todo |-> {}, missing |-> {}, purchase |-> NoPurchase]
HistIdle == [pc |-> "idle", topic |-> 0, chat |-> 0, todo |-> <<>>]

NoText == [kind |-> "none", a |-> 0, b |-> 0]
NoSend == [item |-> PendingItem(NoText, None, None, None), active |-> FALSE, dedup |-> FALSE,
           result |-> FALSE, called |-> FALSE, flood |-> 0]
NoAdd == [invoice_id |-> 0, fetched |-> FALSE, known |-> FALSE, result |-> FALSE]
NoFlood == [at |-> 0, d |-> 0]
NoRound == [tick |-> 0, known |-> <<>>, chats |-> {}]
\* no operator message is being handled
NoTopicMessage == [pc |-> "idle", topic_id |-> None, invoice_id |-> None, result |-> "none",
                   handled |-> 0]

NoCreate == [invoice_id |-> 0, answer |-> "none", post |-> "none"]

\* What is recorded of a call add_purchase(p) on the registry reg: whether p
\* came from a successful detail fetch, whether the invoice was already in
\* the registry, and the returned value.
AddCall(reg, p) == [invoice_id |-> p.invoice_id, fetched |-> p.complete,
                    known |-> is_purchase_processed(reg, p.invoice_id),
                    result |-> add_purchase_ok(reg, p)]

\* BotService.__init__ on a first run: no file exists yet.  start() has still
\* to call process_pending_topics before it creates the tasks.
Init ==
    /\ now = 1
    /\ ticks = 0
    /\ chat_messages = [i \in Invoices |-> {}]
    /\ processed_messages = <<>>
    /\ pending_messages = <<>>
    /\ message_flood_control_until = None
    /\ thread_posts = <<>>
    /\ post_count = [k \in Identities |-> 0]
    /\ deliver_calls = [k \in Identities |-> 0]
    /\ last_send = NoSend
    /\ processed_purchases = <<>>
    /\ last_add = NoAdd
    /\ topics = <<>>
    /\ pending_topics = <<>>
    /\ pending_topics_file = <<>>
    /\ flood_control_until = None
    /\ failed_topics = [i \in Invoices |-> None]
    /\ next_thread = 1
    /\ live_threads = {}
    /\ thread_owner = <<>>
    /\ window_call = FALSE
    /\ last_flood = NoFlood
    /\ last_create = NoCreate
    /\ greeted = [i \in Invoices |-> 0]
    /\ removed_missing = {}
    /\ regreeted = {}
    /\ skip_greeted = FALSE
    /\ first_message_enabled \in BOOLEAN
    /\ poll = PollIdle
    /\ mon = MonAt("start", TRUE)
    /\ sync = SyncAt("idle", TRUE)
    /\ hist = HistIdle
    /\ history_runs = 0
    /\ deletes = 0
    /\ restarts = 0
    /\ messages_file = <<>>
    /\ check_round = NoRound
    /\ last_error = "none"
    /\ running = FALSE
    /\ topic_message = NoTopicMessage
    /\ ExtInit

\* ------------------------------------------------------------ environment
Tick(d) ==
    /\ ticks < MaxTicks
    /\ now' = now + d
    /\ ticks' = ticks + 1
    /\ UNCHANGED <<chat_messages, msgVars, deliver_calls, processed_purchases, last_add,
                   topicVars, removed_missing, first_message_enabled, poll, mon, sync, hist,
                   history_runs, deletes, restarts,
                   check_round, last_error, running, topic_message, extVars>>

\* the buyer writes message m in the chat of purchase c
BuyerWrites(c, m) ==
    /\ m \notin chat_messages[c]
    /\ chat_messages' = [chat_messages EXCEPT ![c] = @ \cup {m}]
    /\ UNCHANGED <<now, ticks, msgVars, deliver_calls, processed_purchases, last_add,
                   topicVars, removed_missing, first_message_enabled, poll, mon, sync, hist,
                   history_runs, deletes, restarts,
                   check_round, last_error, running, topic_message, extVars>>

\* the operator deletes thread t in the group
DeleteThread(t) ==
    /\ deletes < MaxDeletes
    /\ t \in live_threads
    /\ live_threads' = live_threads \ {t}
    /\ deletes' = deletes + 1
    /\ UNCHANGED <<now, ticks, chat_messages, msgVars, deliver_calls, processed_purchases,
                   last_add, topics, queueVars, failed_topics, next_thread, thread_owner,
                   window_call, last_flood, last_create, greeted, regreeted, skip_greeted,
                   removed_missing, first_message_enabled, poll, mon, sync, hist,
                   history_runs, restarts,
                   check_round, last_error, running, topic_message, extVars>>

\* ------------------------------------------------------- purchase_checker
\* check_new_purchases, sale i of the answer of get_last_sales: the 10 minute
\* failure window, the registry lookup and the start of process_new_purchase
\* up to the detail fetch.
PollPick(i) ==
    /\ poll.pc = "idle"
    /\ ~mon.boot
    /\ ~FailedRecently(failed_topics, i, now, PollFailedCooldown)
    /\ Truthy(failed_topics[i]) \/ ~is_purchase_processed(processed_purchases, i)
    /\ failed_topics' = [failed_topics EXCEPT ![i] = None]
    /\ poll' = IF is_purchase_processed(processed_purchases, i)
               THEN poll
               ELSE [pc |-> "fetch", inv |-> i, purchase |-> NoPurchase]
    /\ UNCHANGED <<now, ticks, chat_messages, msgVars, deliver_calls, processed_purchases,
                   last_add, topics, queueVars, next_thread, live_threads, thread_owner,
                   window_call, last_flood, last_create, greeted, regreeted, skip_greeted,
                   removed_missing, first_message_enabled, mon, sync, hist, history_runs,
                   deletes, restarts,
                   check_round, last_error, running, topic_message, extVars>>

\* process_new_purchase from the answer of get_purchase_info to the sleep in
\* create_topic_for_purchase
PollFetched(ok) ==
    /\ poll.pc = "fetch"
    /\ LET p == IF ok THEN Purchase(poll.inv, now) ELSE DummyPurchase(poll.inv, now)
           created == add_purchase_ok(processed_purchases, p)
       IN
       /\ processed_purchases' = add_purchase(processed_purchases, p)
       /\ last_add' = AddCall(processed_purchases, p)
       /\ IF ok /\ created
          THEN /\ CtfpBegin(p, FALSE, topics, pending_topics, flood_control_until,
                            pending_topics_file, FALSE, <<>>)
               /\ poll' = IF CtfpGate(p.invoice_id, topics, flood_control_until) = "go"
                          THEN [pc |-> "create", inv |-> poll.inv, purchase |-> p]
                          ELSE PollIdle
          ELSE /\ poll' = PollIdle
               /\ UNCHANGED <<queueVars, platformVars>>
    /\ UNCHANGED <<now, ticks, chat_messages, msgVars, deliver_calls, topics,
                   removed_missing, first_message_enabled, mon, sync, hist, history_runs,
                   deletes, restarts,
                   check_round, last_error, running, topic_message, extVars>>

\* create_topic_for_purchase after the sleep, called by process_new_purchase
PollCreate(cout, s1, s2) ==
    /\ poll.pc = "create"
    /\ CtfpFinish(poll.purchase, FALSE, FALSE, <<>>, cout, s1, s2)
    /\ poll' = PollIdle
    /\ UNCHANGED <<now, ticks, chat_messages, deliver_calls, processed_purchases, last_add,
                   removed_missing, first_message_enabled, mon, sync, hist, history_runs,
                   deletes, restarts,
                   check_round, last_error, running, topic_message, extVars>>

\* ------------------------------------------------------- monitor_messages
Young(data, t) == Truthy(data.timestamp) /\ t - data.timestamp < GraceSeconds

\* the loop with its append left out: the items younger than 30 seconds are
\* passed over and not put back
RECURSIVE skip_young_dropped(_, _, _)
skip_young_dropped(pend, items, t) ==
    IF items # <<>> /\ Young(Head(items), t)
    THEN skip_young_dropped(pend, Tail(items), t)
    ELSE [pend |-> pend, items |-> items]

\* the loop of process_pending_topics puts the items younger than 30 seconds
\* back into the queue and goes on without an await
RECURSIVE SkipYoung(_, _, _)
SkipYoung(pend, items, t) ==
    IF items # <<>> /\ Young(Head(items), t)
    THEN SkipYoung(Append(pend, Head(items)), Tail(items), t)
    ELSE [pend |-> pend, items |-> items]

\* the loop left after its first item, whatever the item's outcome was
mon_next_item_stop(rest, break) == MonAt("check", FALSE)

\* the monitor after one item of the loop of process_pending_topics: the loop
\* is left by the break or by its end, and the caller (start() or the cycle
\* of monitor_messages) goes on to check the chats
MonNextItem(rest, break) ==
    IF break \/ rest = <<>>
    THEN MonAt("check", FALSE)
    ELSE [MonAt("pt_loop", mon.boot) EXCEPT !.tps = rest]

\* The loop of process_pending_topics over items, from one await to the next
\* one: the sleep in create_topic_for_purchase or the sleep after the call.
PendingTopicsRun(pend, fcu, file, items) ==
    LET sk == SkipYoung(pend, items, now) IN
    IF sk.items = <<>>
    THEN /\ pending_topics' = sk.pend
         /\ pending_topics_file' = file
         /\ flood_control_until' = fcu
         /\ mon' = MonAt("check", FALSE)
         /\ UNCHANGED platformVars
    ELSE LET data == Head(sk.items)
             rest == Tail(sk.items)
         IN
         /\ CtfpBegin(data.purchase, data.skip_greeting, topics, sk.pend, fcu, file, TRUE, rest)
         /\ mon' = IF CtfpGate(data.purchase.invoice_id, topics, fcu) = "go"
                   THEN [MonAt("pt_create", mon.boot) EXCEPT !.tps = rest, !.cur = data]
                   ELSE MonNextItem(rest, Truthy(flood_control_until'))

\* process_pending_topics from its first line to its first await
PendingTopicsStart ==
    IF pending_topics = <<>> \/ Active(flood_control_until, now)
    THEN /\ mon' = MonAt("check", FALSE)
         /\ UNCHANGED <<queueVars, platformVars>>
    ELSE PendingTopicsRun(<<>>, None, SavePendingTopics(<<>>), pending_topics)

\* start() sets running when its call of process_pending_topics has returned
StartedAfter == running \/ (mon.boot /\ ~mon'.boot)

\* start() calls process_pending_topics before it creates the tasks
StartPendingTopics ==
    /\ mon.pc = "start"
    /\ PendingTopicsStart
    /\ UNCHANGED <<now, ticks, chat_messages, msgVars, deliver_calls, processed_purchases,
                   last_add, topics, removed_missing, first_message_enabled, poll, sync, hist,
                   history_runs, deletes, restarts,
                   check_round, last_error, topic_message, extVars>>
    /\ running' = StartedAfter

\* one message of the loop of process_pending_messages, sent from the state
\* st; the loop ends by its break, and process_pending_topics starts, or
\* sleeps a second with the messages left
SendPending(st0, msgs, out) ==
    LET msg == Head(msgs)
        st == send_message_with_cooldown(st0, msg.text, msg.topic_id, msg.chat_id,
                                         msg.message_id, out, now)
        break == ~st.last.result /\ Truthy(st.until)
    IN
    /\ ~st.last.called => out = OkOut
    /\ SetMsgState(st)
    /\ IF break
       THEN PendingTopicsStart
       ELSE /\ mon' = [MonAt("pm_loop", FALSE) EXCEPT !.msgs = Tail(msgs)]
            /\ UNCHANGED <<queueVars, platformVars>>

\* A cycle of the loop of monitor_messages after its sleep:
\* process_pending_messages and process_pending_topics up to the first await.
MonCycle(out) ==
    /\ mon.pc = "check"
    /\ IF pending_messages = <<>> \/ Active(message_flood_control_until, now)
       THEN /\ out = OkOut
            /\ PendingTopicsStart
            /\ UNCHANGED msgVars
       ELSE SendPending([MsgState EXCEPT !.until = None, !.pend = <<>>], pending_messages, out)
    /\ UNCHANGED <<now, ticks, chat_messages, deliver_calls, processed_purchases, last_add,
                   topics, removed_missing, first_message_enabled, poll, sync, hist,
                   history_runs, deletes, restarts,
                   check_round, last_error, running, topic_message, extVars>>

\* the next iteration of the loop of process_pending_messages, or its end
MonSendPending(out) ==
    /\ mon.pc = "pm_loop"
    /\ IF mon.msgs = <<>>
       THEN /\ out = OkOut
            /\ PendingTopicsStart
            /\ UNCHANGED msgVars
       ELSE SendPending(MsgState, mon.msgs, out)
    /\ UNCHANGED <<now, ticks, chat_messages, deliver_calls, processed_purchases, last_add,
                   topics, removed_missing, first_message_enabled, poll, sync, hist,
                   history_runs, deletes, restarts,
                   check_round, last_error, running, topic_message, extVars>>

\* the next iteration of the loop of process_pending_topics after its sleep
MonTopicItem ==
    /\ mon.pc = "pt_loop"
    /\ PendingTopicsRun(pending_topics, flood_control_until, pending_topics_file, mon.tps)
    /\ UNCHANGED <<now, ticks, chat_messages, msgVars, deliver_calls, processed_purchases,
                   last_add, topics, removed_missing, first_message_enabled, poll, sync, hist,
                   history_runs, deletes, restarts,
                   check_round, last_error, topic_message, extVars>>
    /\ running' = StartedAfter

\* create_topic_for_purchase after the sleep, called by process_pending_topics
MonTopicCreate(cout, s1, s2) ==
    /\ mon.pc = "pt_create"
    /\ CtfpFinish(mon.cur.purchase, mon.cur.skip_greeting, TRUE, mon.tps, cout, s1, s2)
    /\ mon' = MonNextItem(mon.tps, Truthy(flood_control_until'))
    /\ UNCHANGED <<now, ticks, chat_messages, deliver_calls, processed_purchases, last_add,
                   removed_missing, first_message_enabled, poll, sync, hist, history_runs,
                   deletes, restarts,
                   check_round, last_error, topic_message, extVars>>
    /\ running' = StartedAfter

\* message_manager.py declares add_processed_message with "def": the call
\* returns a bool, and "await" applied to a bool raises TypeError
add_processed_message_is_coroutine == FALSE

\* process_single_message_check(chat_id, topic_id, msg_data) for message m of
\* chat c, called through check_topics_parallel for a purchase topic; out is
\* what TelegramBot.send_message answers if it is called.  deliver_calls is
\* left to the two actions below.
ProcessSingleMessageCheck(c, m, out) ==
    /\ mon.pc = "check"
    /\ TopicKey(c) \in DOMAIN topics
    /\ Truthy(topics[TopicKey(c)].topic_id)
    /\ m \in chat_messages[c]
    /\ IF is_message_processed(processed_messages, c, m)
       THEN UNCHANGED msgVars
       ELSE LET ledger == add_processed_message(processed_messages, c, m, m, now, now)
                st == [MsgState EXCEPT !.ledger = ledger]
            IN
            IF add_processed_message_is_coroutine
            THEN SetMsgState(send_message_with_cooldown(st, ContentText(c, m),
                                 topics[TopicKey(c)].topic_id, c, m, out, now))
            ELSE \* TypeError, caught by the handler of process_single_message_check
                 SetMsgState(st)
    /\ UNCHANGED <<now, ticks, chat_messages, processed_purchases, last_add, topicVars,
                   removed_missing, first_message_enabled, poll, mon, sync, hist,
                   history_runs, deletes, restarts,
                   check_round, last_error, running, topic_message, extVars>>

\* process_single_message_check, its calls not counted
CheckMessage(c, m, out) ==
    /\ ProcessSingleMessageCheck(c, m, out)
    /\ UNCHANGED deliver_calls

\* process_single_message_check, counting per identity, up to two, the calls
\* made with no message cooldown active and the platform accepting the post
CountedCheckMessage(c, m, out) ==
    /\ ProcessSingleMessageCheck(c, m, out)
    /\ deliver_calls' = IF Active(message_flood_control_until, now) \/ out.kind # "ok"
                        THEN deliver_calls
                        ELSE [deliver_calls EXCEPT ![<<c, m>>] = IF @ < 2 THEN @ + 1 ELSE @]


\* the purchase topics of the directory, as monitor_messages collects them
PurchaseEntries(tp) == [k \in PurchaseTopics(tp) |-> tp[k]]

\* A cycle of monitor_messages reaches its check of the chats: it collects
\* the purchase topics and check_topics_parallel starts a check for each.
MonCheckRound ==
    /\ mon.pc = "check"
    /\ check_round.tick < MaxRounds
    /\ check_round' = [tick |-> check_round.tick + 1,
                       known |-> PurchaseEntries(topics),
                       chats |-> CheckedTopics(PurchaseEntries(topics))]
    /\ UNCHANGED <<now, ticks, chat_messages, msgVars, deliver_calls, processed_purchases,
                   last_add, topicVars, removed_missing, first_message_enabled, poll, mon,
                   sync, hist, history_runs, deletes, restarts, last_error, running, topic_message, extVars>>

\* process_single_message_check called by a check that the cycle started
RoundCheckMessage(c, m, out) ==
    /\ TopicKey(c) \in check_round.chats
    /\ CheckMessage(c, m, out)
\* --------------------------------------------------------------- /history
RECURSIVE Ascending(_)
Ascending(S) ==
    IF S = {} THEN <<>>
    ELSE LET x == CHOOSE y \in S : \A z \in S : y <= z
         IN <<x>> \o Ascending(S \ {x})

\* handle_history_command(topic_id) and load_chat_history([invoice_id],
\* topic_id, force_reload=True) up to its loop; the messages are sorted by time
HistoryStart(t, out) ==
    /\ hist.pc = "idle"
    /\ history_runs < MaxHistory
    /\ t \in live_threads
    /\ \E key \in DOMAIN topics : topics[key].topic_id = t
    /\ LET key == CHOOSE k \in DOMAIN topics : topics[k].topic_id = t
           c == topics[key].invoice_id
           all_messages == Ascending(chat_messages[c])
       IN
       /\ history_runs' = history_runs + 1
       /\ IF all_messages = <<>> /\ first_message_enabled
          THEN /\ SetMsgState(send_message_with_cooldown(MsgState, GreetingText, t,
                                                          None, None, out, now))
               /\ ~last_send'.called => out = OkOut
               /\ greeted' = [greeted EXCEPT ![c] = @ + 1]
               /\ hist' = HistIdle
          ELSE /\ out = OkOut
               /\ hist' = IF all_messages = <<>>
                          THEN HistIdle
                          ELSE [pc |-> "send", topic |-> t, chat |-> c, todo |-> all_messages]
               /\ UNCHANGED <<msgVars, greeted>>
    /\ UNCHANGED <<now, ticks, chat_messages, deliver_calls, processed_purchases, last_add,
                   topics, queueVars, failed_topics, next_thread, live_threads, thread_owner,
                   window_call, last_flood, last_create, regreeted, skip_greeted,
                   removed_missing, first_message_enabled, poll, mon, sync, deletes, restarts,
                   check_round, last_error, running, topic_message, extVars>>

\* one iteration of the loop of load_chat_history with force_reload
HistorySend(out) ==
    /\ hist.pc = "send"
    /\ LET m == Head(hist.todo)
           st == send_message_with_cooldown(MsgState, HistoryText(hist.chat, m),
                                            hist.topic, hist.chat, m, out, now)
       IN
       /\ ~st.last.called => out = OkOut
       /\ SetMsgState(st)
    /\ hist' = IF Tail(hist.todo) = <<>> THEN HistIdle ELSE [hist EXCEPT !.todo = Tail(@)]
    /\ UNCHANGED <<now, ticks, chat_messages, deliver_calls, processed_purchases, last_add,
                   topicVars, removed_missing, first_message_enabled, poll, mon, sync,
                   history_runs, deletes, restarts,
                   check_round, last_error, running, topic_message, extVars>>

\* ---------------------------------------------- sync_topics_with_purchases
\* TelegramBot.check_topic_exists: an edit of a thread that exists is
\* answered without a "not found" error; for one that does not, the error is
\* "not found" or an unrelated one (timeout, rate limit), which counts as alive
ProbeAnswers(topic_id) == IF topic_id \in live_threads THEN {TRUE} ELSE {TRUE, FALSE}

\* the start of sync_topics_with_purchases and of check_deleted_topics
SyncStart ==
    /\ sync.pc = "idle"
    /\ sync.due
    /\ ~mon.boot
    /\ sync' = [SyncAt("deleted", FALSE) EXCEPT
                  !.todo = {[inv |-> topics[k].invoice_id, topic_id |-> topics[k].topic_id] :
                              k \in {q \in PurchaseTopics(topics) : Truthy(topics[q].topic_id)}}]
    /\ UNCHANGED <<now, ticks, chat_messages, msgVars, deliver_calls, processed_purchases,
                   last_add, topicVars, removed_missing, first_message_enabled, poll, mon,
                   hist, history_runs, deletes, restarts,
                   check_round, last_error, running, topic_message, extVars>>

\* check_deleted_topics is over
SyncDeletedDone ==
    /\ sync.pc = "deleted"
    /\ sync.todo = {}
    /\ sync' = SyncAt("sales", FALSE)
    /\ UNCHANGED <<now, ticks, chat_messages, msgVars, deliver_calls, processed_purchases,
                   last_add, topicVars, removed_missing, first_message_enabled, poll, mon,
                   hist, history_runs, deletes, restarts,
                   check_round, last_error, running, topic_message, extVars>>

\* one iteration of the loop of check_deleted_topics for entry e, up to the
\* sleep in create_topic_for_purchase: exists is the answer of
\* check_topic_exists, ok that of get_purchase_info
ProbeStep(e, exists, ok) ==
    LET rest == sync.todo \ {e}
        p == Purchase(e.inv, now)
        tp == remove_topic(topics, TopicKey(e.inv))
    IN
    /\ exists => ok
    /\ IF exists
       THEN /\ sync' = [sync EXCEPT !.todo = rest]
            /\ UNCHANGED <<topicVars, removed_missing>>
       ELSE /\ topics' = tp
            /\ removed_missing' = removed_missing \cup {e.inv}
            /\ IF ok
               THEN /\ CtfpBegin(p, TRUE, tp, pending_topics, flood_control_until,
                                 pending_topics_file, FALSE, <<>>)
                    /\ sync' = IF CtfpGate(e.inv, tp, flood_control_until) = "go"
                               THEN [sync EXCEPT !.pc = "deleted_create", !.todo = rest,
                                                 !.purchase = p]
                               ELSE IF Truthy(flood_control_until')
                               THEN SyncAt("sales", FALSE)
                               ELSE [sync EXCEPT !.todo = rest]
               ELSE /\ sync' = [sync EXCEPT !.todo = rest]
                    /\ UNCHANGED <<queueVars, platformVars>>
    /\ UNCHANGED <<now, ticks, chat_messages, msgVars, deliver_calls, processed_purchases,
                   last_add, first_message_enabled, poll, mon, hist, history_runs, deletes,
                   restarts, check_round, last_error, running, topic_message>>

\* the iteration with the probe taken as answering whether the thread is
\* there
SyncProbe ==
    /\ sync.pc = "deleted"
    /\ \E e \in sync.todo, exists \in BOOLEAN, ok \in BOOLEAN :
         /\ exists \in ProbeAnswers(e.topic_id)
         /\ ProbeStep(e, exists, ok)
    /\ UNCHANGED extVars

\* the texts of the errors that edit_forum_topic raises, in lower case
ProbeTexts ==
    {"topic_not_modified", "topic_deleted", "message thread not found", "topic_id_invalid",
     "flood control exceeded", "timed out", "invalid server response", "chat not found"}

\* for a thread that is there the edit to the same name is refused as not
\* modified, for one that is not the platform names the thread; either call
\* may instead fail on the way
ProbeErrors(topic_id) ==
    {err \in ProbeTexts :
        CASE err = "topic_not_modified" -> topic_id \in live_threads
          [] err \in {"topic_deleted", "message thread not found", "topic_id_invalid"} ->
                 topic_id \notin live_threads
          [] OTHER -> TRUE}

\* TelegramBot.check_topic_exists for an edit that raised err: the words the
\* handler looks for in the text
check_topic_exists(err) ==
    LET words == {"deleted", "not found", "invalid", "thread", "message_thread_id"}
        found == CASE err = "topic_deleted" -> {"deleted"}
                   [] err = "message thread not found" -> {"not found", "thread"}
                   [] err = "topic_id_invalid" -> {"invalid"}
                   [] err = "invalid server response" -> {"invalid"}
                   [] err = "chat not found" -> {"not found"}
                   [] OTHER -> {}
    IN  found \cap words = {}

\* the iteration with the probe's error text as the input
SyncProbeAnswer(err) ==
    /\ sync.pc = "deleted"
    /\ \E e \in sync.todo, ok \in BOOLEAN :
         /\ err \in ProbeErrors(e.topic_id)
         /\ last_probe' = [topic_id |-> e.topic_id, error |-> err,
                           exists |-> check_topic_exists(err)]
         /\ ProbeStep(e, check_topic_exists(err), ok)
    /\ UNCHANGED <<authVars, checkVars, request, current_url_index, reviewVars, last_update>>

\* create_topic_for_purchase(purchase, skip_greeting=True) after the sleep,
\* called by check_deleted_topics
SyncDeletedCreate(cout, s1, s2) ==
    /\ sync.pc = "deleted_create"
    /\ CtfpFinish(sync.purchase, TRUE, FALSE, <<>>, cout, s1, s2)
    /\ sync' = IF Truthy(flood_control_until')
               THEN SyncAt("sales", FALSE)
               ELSE [sync EXCEPT !.pc = "deleted", !.purchase = NoPurchase]
    /\ UNCHANGED <<now, ticks, chat_messages, deliver_calls, processed_purchases, last_add,
                   removed_missing, first_message_enabled, poll, mon, hist, history_runs,
                   deletes, restarts,
                   check_round, last_error, running, topic_message, extVars>>

\* the difference taken against the registry: an invoice that is registered
\* counts as done whether it has a thread or not
missing_unregistered(feed, tp) == feed \ DOMAIN processed_purchases

\* missing_invoice_ids: the invoices of the feed without an entry
\* "purchase_<invoice_id>" in the directory
missing_invoice_ids(feed, tp) == feed \ {k[2] : k \in PurchaseTopics(tp)}

\* get_last_sales(30) answers with the sales feed, or fails (feed is empty),
\* and the difference between the feed and the directory
SyncSales(feed) ==
    /\ sync.pc = "sales"
    /\ LET missing == missing_invoice_ids(feed, topics)
       IN sync' = IF missing = {} THEN SyncAt("idle", FALSE)
                  ELSE [SyncAt("missing", FALSE) EXCEPT !.missing = missing]
    /\ UNCHANGED <<now, ticks, chat_messages, msgVars, deliver_calls, processed_purchases,
                   last_add, topicVars, removed_missing, first_message_enabled, poll, mon,
                   hist, history_runs, deletes, restarts,
                   check_round, last_error, running, topic_message, extVars>>

\* the reconciliation task after one invoice of missing_invoice_ids
SyncNextMissing(rest, break) ==
    IF break \/ rest = {}
    THEN SyncAt("idle", FALSE)
    ELSE [SyncAt("missing", FALSE) EXCEPT !.missing = rest]

\* one iteration of the loop over missing_invoice_ids, up to the sleep in
\* create_topic_for_purchase
SyncMissing ==
    /\ sync.pc = "missing"
    /\ \E i \in sync.missing, ok \in BOOLEAN :
         LET rest == sync.missing \ {i}
             p == Purchase(i, now)
         IN
         IF ok
         THEN /\ processed_purchases' = add_purchase(processed_purchases, p)
              /\ last_add' = AddCall(processed_purchases, p)
              /\ CtfpBegin(p, FALSE, topics, pending_topics, flood_control_until,
                           pending_topics_file, FALSE, <<>>)
              /\ sync' = IF CtfpGate(i, topics, flood_control_until) = "go"
                         THEN [sync EXCEPT !.pc = "missing_create", !.missing = rest,
                                           !.purchase = p]
                         ELSE SyncNextMissing(rest, Truthy(flood_control_until'))
         ELSE /\ sync' = SyncNextMissing(rest, FALSE)
              /\ UNCHANGED <<processed_purchases, last_add, queueVars, platformVars>>
    /\ UNCHANGED <<now, ticks, chat_messages, msgVars, deliver_calls, topics,
                   removed_missing, first_message_enabled, poll, mon, hist, history_runs,
                   deletes, restarts,
                   check_round, last_error, running, topic_message, extVars>>

\* create_topic_for_purchase(purchase) after the sleep, called by
\* sync_topics_with_purchases
SyncMissingCreate(cout, s1, s2) ==
    /\ sync.pc = "missing_create"
    /\ CtfpFinish(sync.purchase, FALSE, FALSE, <<>>, cout, s1, s2)
    /\ sync' = SyncNextMissing(sync.missing, Truthy(flood_control_until'))
    /\ UNCHANGED <<now, ticks, chat_messages, deliver_calls, processed_purchases, last_add,
                   removed_missing, first_message_enabled, poll, mon, hist, history_runs,
                   deletes, restarts,
                   check_round, last_error, running, topic_message, extVars>>

\* monitor_messages starts the next reconciliation pass: its counter of cycles
\* has reached a day
SyncDue ==
    /\ sync.pc = "idle"
    /\ ~sync.due
    /\ ~mon.boot
    /\ sync' = [sync EXCEPT !.due = TRUE]
    /\ UNCHANGED <<now, ticks, chat_messages, msgVars, deliver_calls, processed_purchases,
                   last_add, topicVars, removed_missing, first_message_enabled, poll, mon,
                   hist, history_runs, deletes, restarts,
                   check_round, last_error, running, topic_message, extVars>>

\* ---------------------------------------------------------------- restart

\* the process exits (hard_restart_scheduler, an update, a signal) and
\* BotService.__init__ runs again: the files stay, the memory does not
Restart ==
    /\ restarts < MaxRestarts
    /\ restarts' = restarts + 1
    /\ pending_messages' = <<>>
    /\ message_flood_control_until' = None
    /\ flood_control_until' = None
    /\ failed_topics' = [i \in Invoices |-> None]
    /\ pending_topics' = LoadPendingTopics(pending_topics_file, now)
    /\ last_flood' = NoFlood
    /\ last_create' = NoCreate
    /\ last_send' = NoSend
    /\ last_add' = NoAdd
    /\ poll' = PollIdle
    /\ mon' = MonAt("start", TRUE)
    /\ sync' = SyncAt("idle", TRUE)
    /\ hist' = HistIdle
    /\ processed_messages' = load_messages(messages_file)
    /\ check_round' = NoRound
    /\ last_error' = "none"
    /\ running' = FALSE
    /\ topic_message' = [NoTopicMessage EXCEPT !.handled = topic_message.handled]
    /\ UNCHANGED <<now, ticks, chat_messages, messages_file, thread_posts, post_count,
                   deliver_calls, processed_purchases, topics, pending_topics_file,
                   next_thread, live_threads, thread_owner, window_call, greeted, regreeted,
                   skip_greeted, removed_missing, first_message_enabled, history_runs,
                   deletes>>
    /\ ExtRestart


\* ------------------------------------------------- errors inside the tasks
\* stop(): running is cleared and every task of the event loop is cancelled
Stopped ==
    /\ running' = FALSE
    /\ poll' = [PollIdle EXCEPT !.pc = "stopped"]
    /\ mon' = MonAt("stopped", FALSE)
    /\ sync' = SyncAt("stopped", FALSE)
    /\ hist' = [HistIdle EXCEPT !.pc = "stopped"]
    /\ topic_message' = [NoTopicMessage EXCEPT !.pc = "stopped", !.handled = topic_message.handled]

\* ensure_ggsel_auth raises in a cycle of monitor_messages: the handler of
\* the cycle logs the error, and the loop sleeps and goes on
MonitorAuthError ==
    /\ running
    /\ mon.pc = "check"
    /\ last_error' = "monitor"
    /\ UNCHANGED <<now, ticks, chat_messages, msgVars, deliver_calls, processed_purchases,
                   last_add, topicVars, removed_missing, first_message_enabled, poll, mon,
                   sync, hist, history_runs, deletes, restarts, check_round, running, topic_message, extVars>>

\* An error in a cycle of purchase_checker.  Raised by ensure_ggsel_auth in
\* check_new_purchases it is logged by the loop; raised by the detail fetch
\* or inside create_topic_for_purchase it is caught there, and the invoice is
\* given its failure time.
PollerError ==
    /\ running
    /\ poll.pc \in {"idle", "fetch", "create"}
    /\ last_error' = "poller"
    /\ poll' = PollIdle
    /\ failed_topics' = IF poll.pc = "idle"
                        THEN failed_topics
                        ELSE [failed_topics EXCEPT ![poll.inv] = now]
    /\ UNCHANGED <<now, ticks, chat_messages, msgVars, deliver_calls, processed_purchases,
                   last_add, topics, queueVars, next_thread, live_threads, thread_owner,
                   window_call, last_flood, last_create, greeted, regreeted, skip_greeted,
                   removed_missing, first_message_enabled, mon, sync, hist, history_runs,
                   deletes, restarts, check_round, running, topic_message, extVars>>

\* ensure_ggsel_auth raises in reauth_scheduler, which has no handler: the
\* task ends with the error, gather() in start() raises it, and the finally
\* clause of start() calls stop()
ReauthError ==
    /\ running
    /\ last_error' = "reauth"
    /\ Stopped
    /\ UNCHANGED <<now, ticks, chat_messages, msgVars, deliver_calls, processed_purchases,
                   last_add, topicVars, removed_missing, first_message_enabled,
                   history_runs, deletes, restarts, check_round, extVars>>

\* -------------------------------------------- PurchaseManager, called alone
\* cleanup_old_purchases(days), a method of PurchaseManager that no line of
\* BotService calls
RegistryCleanup(days) ==
    /\ processed_purchases' = cleanup_old_purchases(processed_purchases, days, now)
    /\ processed_purchases' # processed_purchases
    /\ UNCHANGED <<now, ticks, chat_messages, msgVars, deliver_calls, last_add, topicVars,
                   removed_missing, first_message_enabled, poll, mon, sync, hist,
                   history_runs, deletes, restarts, check_round, last_error, running, topic_message, extVars>>

\* ------------------------------------------- operator messages in a thread
\* A thread of the forum that the engine did not open (a member opened it
\* by hand): no entry of topics carries its id
ForeignThread == MaxThreads + 1

\* the three tests a text of a thread passes before it is sent to the buyer,
\* with every test dropped
is_relayed_always(is_bot, command, found) == TRUE

\* The three tests a text of a thread passes before it is sent to the buyer:
\* from_user.is_bot in TelegramBot._handle_topic_message,
\* message_text.startswith('/') and the search of self.topics for the
\* entry with this topic_id in _handle_topic_message_async
is_relayed(is_bot, command, found) == ~is_bot /\ ~command /\ found

\* One text message of thread t reaches the bot: TelegramBot.
\* _handle_topic_message and, unless the sender is a bot,
\* _handle_topic_message_async up to its await of ggsel_api.send_message;
\* command is message_text.startswith('/')
TopicUpdate(t, command, is_bot) ==
    /\ topic_message.pc = "idle"
    /\ topic_message.handled < MaxHandled
    /\ t \in live_threads \cup {ForeignThread}
    /\ last_update' = [topic_id |-> t, command |-> command, is_bot |-> is_bot]
    /\ LET found == \E key \in DOMAIN topics : topics[key].topic_id = t
           key == CHOOSE k \in DOMAIN topics : topics[k].topic_id = t
       IN
       topic_message' =
           IF ~is_relayed(is_bot, command, found)
           THEN [NoTopicMessage EXCEPT !.handled = topic_message.handled + 1]
           ELSE [pc |-> "send", topic_id |-> t, invoice_id |-> topics[key].invoice_id,
                 result |-> "none", handled |-> topic_message.handled + 1]
    /\ UNCHANGED <<now, ticks, chat_messages, msgVars, deliver_calls, processed_purchases,
                   last_add, topicVars, removed_missing, first_message_enabled, poll, mon,
                   sync, hist, history_runs, deletes, restarts, check_round, last_error,
                   running, authVars, checkVars, last_probe, request, current_url_index,
                   reviewVars>>

\* _handle_topic_message_async(topic_id, message_text, ...) up to its await
\* of ggsel_api.send_message, for a message an operator wrote in a thread
\* of the engine; command is message_text.startswith('/')
HandleTopicMessage(t, command) ==
    /\ t \in live_threads
    /\ TopicUpdate(t, command, FALSE)

\* ggsel_api.send_message has returned result, or raised (result FALSE): the
\* handler adds its reaction to the operator's message or sends the error
\* note to the thread; out is what TelegramBot.send_message answers
TopicMessageSent(result, out) ==
    /\ topic_message.pc = "send"
    /\ topic_message' = [topic_message EXCEPT !.pc = "idle",
                                              !.result = IF result THEN "sent" ELSE "failed"]
    /\ IF result
       THEN /\ out = OkOut
            /\ UNCHANGED msgVars
       ELSE /\ SetMsgState(send_message_with_cooldown(MsgState, ErrorNote,
                                                   topic_message.topic_id, None, None,
                                                   out, now))
            /\ ~last_send'.called => out = OkOut
    /\ UNCHANGED <<now, ticks, chat_messages, deliver_calls, processed_purchases, last_add,
                   topicVars, removed_missing, first_message_enabled, poll, mon, sync, hist,
                   history_runs, deletes, restarts, check_round, last_error, running,
                   extVars>>

\* ------------------------------------------------------ ensure_ggsel_auth
auth_valid_never(last, t) == FALSE

\* the test at the head of ensure_ggsel_auth: a login succeeded less than
\* auth_interval ago
auth_valid(last, t) == Truthy(last) /\ t - last < AuthInterval

AuthSteps == {30, AuthInterval}

\* the checks a cycle of monitor_messages starts once ensure_ggsel_auth
\* has returned True
NextRound == [tick |-> check_round.tick + 1,
              known |-> PurchaseEntries(topics),
              chats |-> CheckedTopics(PurchaseEntries(topics))]

\* ensure_ggsel_auth called by task up to its await of login: by a cycle of
\* monitor_messages after process_pending_topics, by check_new_purchases at
\* its head, by reauth_scheduler after its sleep.  With a valid login the
\* call returns True at once and the caller goes on.
AuthCall(task) ==
    /\ auth_wait[task] = None
    /\ task = "monitor" => mon.pc = "check" /\ check_round.tick < MaxRounds
    /\ task = "poller" => poll.pc = "idle"
    /\ IF auth_valid(last_auth_time, now)
       THEN /\ check_round' = IF task = "monitor" THEN NextRound ELSE check_round
            /\ poll' = IF task = "poller" THEN [PollIdle EXCEPT !.pc = "sales"] ELSE poll
            /\ UNCHANGED <<mon, auth_wait>>
       ELSE /\ auth_wait' = [auth_wait EXCEPT ![task] = now]
            /\ mon' = IF task = "monitor" THEN MonAt("login", FALSE) ELSE mon
            /\ poll' = IF task = "poller" THEN [PollIdle EXCEPT !.pc = "login"] ELSE poll
            /\ UNCHANGED check_round
    /\ UNCHANGED <<now, ticks, chat_messages, msgVars, deliver_calls, processed_purchases,
                   last_add, topicVars, removed_missing, first_message_enabled, sync, hist,
                   history_runs, deletes, restarts, last_error, running, topic_message,
                   last_auth_time, last_login, checkVars, last_probe, request,
                   current_url_index, reviewVars, last_update>>

\* login has returned success to the ensure_ggsel_auth call of task: the
\* call stores its current_time and returns True, or returns False and the
\* caller gives up its cycle
LoginDone(task, success) ==
    /\ Truthy(auth_wait[task])
    /\ auth_wait' = [auth_wait EXCEPT ![task] = None]
    /\ last_login' = [task |-> task, ok |-> success]
    /\ last_auth_time' = IF success THEN auth_wait[task] ELSE last_auth_time
    /\ mon' = IF task = "monitor" THEN MonAt("check", FALSE) ELSE mon
    /\ check_round' = IF task = "monitor" /\ success THEN NextRound ELSE check_round
    /\ poll' = IF task = "poller"
               THEN [PollIdle EXCEPT !.pc = IF success THEN "sales" ELSE "idle"]
               ELSE poll
    /\ UNCHANGED <<now, ticks, chat_messages, msgVars, deliver_calls, processed_purchases,
                   last_add, topicVars, removed_missing, first_message_enabled, sync, hist,
                   history_runs, deletes, restarts, last_error, running, topic_message,
                   checkVars, last_probe, request, current_url_index, reviewVars,
                   last_update>>

\* get_last_sales has answered check_new_purchases with no sale to handle
PollSales ==
    /\ poll.pc = "sales"
    /\ poll' = PollIdle
    /\ UNCHANGED <<now, ticks, chat_messages, msgVars, deliver_calls, processed_purchases,
                   last_add, topicVars, removed_missing, first_message_enabled, mon, sync,
                   hist, history_runs, deletes, restarts, check_round, last_error, running,
                   topic_message, extVars>>

\* --------------------------------------------------- check_topics_parallel
\* positions of a task in which it holds the semaphore of its round
Holding == {"lock", "check"}

Held(cs) == Cardinality({k \in CheckTasks : cs[k].pc \in Holding})

semaphore_never_locked(cs) == FALSE

\* asyncio.Semaphore(10).locked(): every one of the 10 places is taken
semaphore_locked(cs) == Held(cs) >= SemaphoreLimit

lock_never_locked(locks, c) == FALSE

\* chat_locks[chat_id].locked(), for a lock that may not exist yet
lock_locked(locks, c) == c \in DOMAIN locks /\ Truthy(locks[c])

\* chat_locks after task k has taken or created the lock of chat c
TakeLock(locks, k, c) == [x \in DOMAIN locks \cup {c} |-> IF x = c THEN k ELSE locks[x]]

\* _check_single_chat(c) run by task k up to its first await: the lock of
\* the chat is created if missing and taken if free, and check_chat_messages
\* starts with the fetch of the chat's messages; behind a taken lock the
\* task waits
EnterCheck(cs, locks, k, c) ==
    IF lock_locked(locks, c)
    THEN [checks |-> [cs EXCEPT ![k] = [pc |-> "lock", chat_id |-> c]],
          chat_locks |-> locks]
    ELSE [checks |-> [cs EXCEPT ![k] = [pc |-> "check", chat_id |-> c]],
          chat_locks |-> TakeLock(locks, k, c)]

\* the tasks k..n of gather, each run in turn up to its first await:
\* check_with_semaphore takes a place of the semaphore or waits for one
RECURSIVE StartChecks(_, _, _, _)
StartChecks(cs, locks, k, n) ==
    IF k > n
    THEN [checks |-> cs, chat_locks |-> locks]
    ELSE IF semaphore_locked(cs)
         THEN StartChecks([cs EXCEPT ![k] = [pc |-> "sem", chat_id |-> k]], locks, k + 1, n)
         ELSE LET e == EnterCheck(cs, locks, k, k)
              IN  StartChecks(e.checks, e.chat_locks, k + 1, n)

CheckFrame ==
    UNCHANGED <<now, ticks, chat_messages, msgVars, deliver_calls, processed_purchases,
                last_add, topicVars, removed_missing, first_message_enabled, poll, mon, sync,
                hist, history_runs, deletes, restarts, check_round, last_error, running,
                topic_message, authVars, last_probe, request, current_url_index, reviewVars,
                last_update>>

\* check_topics_parallel(topics) for the n purchase threads 1..n, called by
\* a cycle of monitor_messages once the gather of the cycle before is over
CheckTopicsParallel(n) ==
    /\ \A k \in CheckTasks : checks[k].pc \in {"none", "done"}
    /\ LET s == StartChecks([k \in CheckTasks |-> NoCheck], chat_locks, 1, n)
       IN  /\ checks' = s.checks
           /\ chat_locks' = s.chat_locks
    /\ CheckFrame

\* _check_single_chat(c) called by task k on its own, outside a round
CheckSingleChat(k, c) ==
    /\ checks[k].pc \in {"none", "done"}
    /\ LET e == EnterCheck(checks, chat_locks, k, c)
       IN  /\ checks' = e.checks
           /\ chat_locks' = e.chat_locks
    /\ CheckFrame

\* a waiting task k goes on: a place of the semaphore has become free, or
\* the lock of its chat has
CheckResumed(k) ==
    /\ \/ /\ checks[k].pc = "sem"
          /\ ~semaphore_locked(checks)
          /\ LET e == EnterCheck(checks, chat_locks, k, checks[k].chat_id)
             IN  /\ checks' = e.checks
                 /\ chat_locks' = e.chat_locks
       \/ /\ checks[k].pc = "lock"
          /\ ~lock_locked(chat_locks, checks[k].chat_id)
          /\ checks' = [checks EXCEPT ![k].pc = "check"]
          /\ chat_locks' = TakeLock(chat_locks, k, checks[k].chat_id)
    /\ CheckFrame

\* check_chat_messages of task k has fetched the messages of the chat,
\* handled each of them and returned: the lock of the chat and the
\* place of the semaphore are given back
CheckFinished(k) ==
    /\ checks[k].pc = "check"
    /\ checks' = [checks EXCEPT ![k].pc = "done"]
    /\ chat_locks' = IF chat_locks[checks[k].chat_id] = k
                     THEN [chat_locks EXCEPT ![checks[k].chat_id] = None]
                     ELSE chat_locks
    /\ CheckFrame

\* ---------------------------------------------------- GGSelAPI._make_request
\* the exception classes that the module requests.exceptions defines
RequestsExceptions ==
    {"RequestException", "InvalidJSONError", "JSONDecodeError", "HTTPError",
     "ConnectionError", "ProxyError", "SSLError", "Timeout", "ConnectTimeout",
     "ReadTimeout", "URLRequired", "TooManyRedirects", "MissingSchema", "InvalidSchema",
     "InvalidURL", "InvalidHeader", "InvalidProxyURL", "ChunkedEncodingError",
     "ContentDecodingError", "StreamConsumedError", "RetryError", "UnrewindableBodyError"}

\* the attributes of requests.exceptions named by the first except clause
TransientClasses == {"ConnectionError", "Timeout", "DNSLookupError"}

\* what answers one session.get / session.post
RequestOutcomes == {"200", "4xx5xx", "other_status", "ConnectionError", "Timeout",
                    "other_exception"}

RequestFrame ==
    UNCHANGED <<now, ticks, chat_messages, msgVars, deliver_calls, processed_purchases,
                last_add, topicVars, removed_missing, first_message_enabled, poll, mon, sync,
                hist, history_runs, deletes, restarts, check_round, last_error, running,
                topic_message, authVars, checkVars, last_probe, reviewVars, last_update>>

\* request after one more session.get / session.post to the current base URL
Sent(r, index) == [r EXCEPT !.pc = "sent", !.sends[index] = @ + 1]

\* _make_request is called and sends its first request
RequestStart ==
    /\ request.pc = "idle"
    /\ request.made < MaxRequests
    /\ request' = Sent([NoRequest EXCEPT !.made = request.made + 1], current_url_index)
    /\ UNCHANGED current_url_index
    /\ RequestFrame

\* the end of the loop over the retries of one base URL: the next base URL
\* is taken and tried, or the call returns None
NextUrl(r) ==
    IF r.url_attempt < NumUrls - 1
    THEN /\ current_url_index' = (current_url_index + 1) % NumUrls
         /\ request' = Sent([r EXCEPT !.url_attempt = @ + 1, !.retry = 0], current_url_index')
    ELSE /\ request' = [r EXCEPT !.pc = "idle", !.result = "None"]
         /\ UNCHANGED current_url_index

\* the request in flight is answered with a status or raises: the code from
\* the answer to the next request or to the end of the call
RequestAnswer(outcome) ==
    /\ request.pc = "sent"
    /\ LET r == [request EXCEPT !.transient = @ /\ outcome \in {"ConnectionError", "Timeout"}]
       IN
       CASE outcome = "200" ->
                /\ current_url_index' = 0
                /\ request' = [r EXCEPT !.pc = "idle", !.result = "200"]
         [] outcome = "4xx5xx" ->
                /\ request' = [r EXCEPT !.pc = "idle", !.result = "error_response"]
                /\ UNCHANGED current_url_index
         [] outcome = "other_status" ->
                IF r.retry < RetriesPerUrl - 1
                THEN /\ request' = Sent([r EXCEPT !.retry = @ + 1], current_url_index)
                     /\ UNCHANGED current_url_index
                ELSE NextUrl(r)
         [] OTHER ->
                \* an exception: the tuple of the first except clause is built
                \* from the attributes of requests.exceptions, and a missing
                \* attribute raises out of the try statement
                IF ~(TransientClasses \subseteq RequestsExceptions)
                THEN /\ request' = [r EXCEPT !.pc = "idle", !.result = "AttributeError"]
                     /\ UNCHANGED current_url_index
                ELSE IF outcome \in TransientClasses /\ r.retry < RetriesPerUrl - 1
                THEN /\ request' = Sent([r EXCEPT !.retry = @ + 1], current_url_index)
                     /\ UNCHANGED current_url_index
                ELSE NextUrl(r)
    /\ RequestFrame

\* ------------------------------------------------------------------ reviews
\* what the review steps leave alone besides the message-send state
reviewRest == <<now, ticks, chat_messages, deliver_calls, processed_purchases, last_add,
                topicVars, removed_missing, first_message_enabled, poll, mon, sync, hist,
                history_runs, deletes, restarts, check_round, last_error, running,
                topic_message, authVars, checkVars, last_probe, request,
                current_url_index, last_update>>

\* the purchases a review is written for: one with a thread, and one
\* older than the threads of the engine
ReviewInvoices == {1, Cardinality(Invoices) + 1}

\* type and text of the versions of a review: the buyer turns a good
\* review into a bad one and keeps the words
ReviewType(c) == IF c = 1 THEN "good" ELSE "bad"
ReviewInfo(c) == "a"

\* the review as the feed returns it
Review(i, c) == [id |-> 1, invoice_id |-> i, content |-> c]

\* review_hash = f"{review_type}:{info}"
review_hash(review) == <<ReviewType(review.content), ":", ReviewInfo(review.content)>>

\* the announcement of a review: "Новый отзыв!" or "Отзыв изменён!" with
\* type, name, date and text of the review
ReviewNote(review, is_updated) ==
    [kind |-> IF is_updated THEN "review_updated" ELSE "review_new", a |-> review.content,
     b |-> 0]

\* the marketplace: the buyer writes a review for purchase i, and changes it
BuyerWritesReview(i) ==
    /\ review_source = NoReview
    /\ review_source' = Review(i, 1)
    /\ UNCHANGED <<msgVars, reviewRest, processed_reviews, review_fetch, announced>>

BuyerEditsReview ==
    /\ review_source.content = 1
    /\ review_source' = [review_source EXCEPT !.content = 2]
    /\ UNCHANGED <<msgVars, reviewRest, processed_reviews, review_fetch, announced>>

\* the invoice_to_topic mapping check_new_reviews builds from the
\* purchase entries of topics
invoice_to_topic(tp) ==
    LET keys == {k \in DOMAIN tp : k[1] = "purchase" /\ Truthy(tp[k].invoice_id)} IN
    [i \in {tp[k].invoice_id : k \in keys} |->
        tp[CHOOSE k \in keys : tp[k].invoice_id = i]]

\* _process_reviews([review], mapping, loop) with the review responses of
\* the autoresponder disabled, as they are by default; out is what
\* TelegramBot.send_message answers the announcement
ProcessReviews(review, mapping, out) ==
    LET review_id == review.id
        known == review_id \in DOMAIN processed_reviews
        has_thread == /\ review.invoice_id \in DOMAIN mapping
                      /\ Truthy(mapping[review.invoice_id].topic_id)
        st == send_message_with_cooldown(MsgState, ReviewNote(review, known),
                                         mapping[review.invoice_id].topic_id, None,
                                         None, out, now)
    IN
    IF known /\ processed_reviews[review_id] = review_hash(review)
    THEN /\ out = OkOut
         /\ UNCHANGED <<msgVars, processed_reviews, announced>>
    ELSE /\ processed_reviews' =
                [k \in DOMAIN processed_reviews \cup {review_id} |->
                    IF k = review_id THEN review_hash(review) ELSE processed_reviews[k]]
         /\ IF ~has_thread
            THEN /\ out = OkOut
                 /\ UNCHANGED <<msgVars, announced>>
            ELSE /\ SetMsgState(st)
                 /\ ~st.last.called => out = OkOut
                 /\ announced' =
                        [announced EXCEPT ![review.content] =
                            IF st.last.called /\ st.last.result THEN @ + 1 ELSE @]

\* asyncio.create_task(self.check_new_reviews()) of monitor_messages, and
\* check_new_reviews up to the first await of its two checkers
ReviewsStart(r) ==
    /\ \A ch \in Checkers : review_fetch[r].pc[ch] = "idle"
    /\ \A q \in ReviewRuns : q < r => review_fetch[q].pc["api"] # "idle"
    /\ review_fetch' = [review_fetch EXCEPT ![r] =
            [pc |-> [ch \in Checkers |-> "fetch"], reviews |-> NoReview,
             invoice_to_topic |-> invoice_to_topic(topics)]]
    /\ UNCHANGED <<msgVars, reviewRest, review_source, processed_reviews, announced>>

\* the executor call of a checker of run r returns.  _check_reviews_by_api:
\* page 1 of get_reviews is there (ok) or not; with every review of the
\* page known the loop breaks and the reviews are processed at once,
\* otherwise the checker sleeps and asks for the next page.
\* _check_reviews_by_topics: GGSelAPI has no get_review_by_invoice, each
\* check_single_invoice logs the AttributeError and ends.
ReviewFetched(r, ch, ok, out) ==
    /\ review_fetch[r].pc[ch] = "fetch"
    /\ UNCHANGED <<reviewRest, review_source>>
    /\ IF ch = "topics" \/ ~ok \/ review_source = NoReview
       THEN /\ out = OkOut
            /\ ch = "topics" => ok
            /\ review_fetch' = [review_fetch EXCEPT ![r].pc[ch] = "done"]
            /\ UNCHANGED <<msgVars, processed_reviews, announced>>
       ELSE IF review_source.id \in DOMAIN processed_reviews
       THEN /\ review_fetch' = [review_fetch EXCEPT ![r].pc[ch] = "done",
                                                    ![r].reviews = review_source]
            /\ ProcessReviews(review_source, review_fetch[r].invoice_to_topic, out)
       ELSE /\ out = OkOut
            /\ review_fetch' = [review_fetch EXCEPT ![r].pc[ch] = "hold",
                                                    ![r].reviews = review_source]
            /\ UNCHANGED <<msgVars, processed_reviews, announced>>

\* _check_reviews_by_api of run r after its last page: the reviews it
\* collected are sorted and processed
ReviewProcessed(r, out) ==
    /\ review_fetch[r].pc["api"] = "hold"
    /\ review_fetch' = [review_fetch EXCEPT ![r].pc["api"] = "done"]
    /\ ProcessReviews(review_fetch[r].reviews, review_fetch[r].invoice_to_topic, out)
    /\ UNCHANGED <<reviewRest, review_source>>
\* --------------------------------------------------------- specifications
\* what the platform answers to a post made while a thread is being created
PostOutcomes == {OkOut, FailOut}

\* First run with one sale in the feed: the poller, the reconciliation pass,
\* the replay of the pending thread creations and the clock.
Next ==
    \/ \E d \in LongSteps : Tick(d)
    \/ PollPick(1)
    \/ \E ok \in BOOLEAN : PollFetched(ok)
    \/ \E cout \in CreateOutcomes, s1, s2 \in PostOutcomes : PollCreate(cout, s1, s2)
    \/ StartPendingTopics
    \/ MonCycle(OkOut)
    \/ MonTopicItem
    \/ \E cout \in CreateOutcomes, s1, s2 \in PostOutcomes : MonTopicCreate(cout, s1, s2)
    \/ SyncStart
    \/ SyncDeletedDone
    \/ SyncProbe
    \/ \E cout \in CreateOutcomes, s1, s2 \in PostOutcomes : SyncDeletedCreate(cout, s1, s2)
    \/ \E feed \in {{}, {1}} : SyncSales(feed)
    \/ SyncMissing
    \/ \E cout \in CreateOutcomes, s1, s2 \in PostOutcomes : SyncMissingCreate(cout, s1, s2)

Spec == Init /\ [][Next]_vars

\* First run with every sale in the feed and a clock that stands still: the
\* poller and the reconciliation pass.
NextFeed ==
    \/ \E i \in Invoices : PollPick(i)
    \/ \E ok \in BOOLEAN : PollFetched(ok)
    \/ \E cout \in CreateOutcomes, s1, s2 \in PostOutcomes : PollCreate(cout, s1, s2)
    \/ StartPendingTopics
    \/ SyncStart
    \/ SyncDeletedDone
    \/ SyncProbe
    \/ \E cout \in CreateOutcomes, s1, s2 \in PostOutcomes : SyncDeletedCreate(cout, s1, s2)
    \/ \E feed \in {{}, Invoices} : SyncSales(feed)
    \/ SyncMissing
    \/ \E cout \in CreateOutcomes, s1, s2 \in PostOutcomes : SyncMissingCreate(cout, s1, s2)

SpecFeed == Init /\ [][NextFeed]_vars

\* The service starts on the files of an earlier run: every invoice of the
\* feed is in the registry and has a thread in the directory.
PersistedPurchases == [i \in Invoices |-> [invoice_id |-> i, buyer_email |-> Email(i),
                                           processed_at |-> 1]]

PersistedTopics == [k \in {TopicKey(i) : i \in Invoices} |->
                      [invoice_id |-> k[2], customer_id |-> Email(k[2]),
                       email |-> Email(k[2]), topic_id |-> k[2]]]

InitPersisted ==
    /\ now = 1
    /\ ticks = 0
    /\ chat_messages = [i \in Invoices |-> {}]
    /\ processed_messages = <<>>
    /\ pending_messages = <<>>
    /\ message_flood_control_until = None
    /\ thread_posts = <<>>
    /\ post_count = [k \in Identities |-> 0]
    /\ deliver_calls = [k \in Identities |-> 0]
    /\ last_send = NoSend
    /\ processed_purchases = PersistedPurchases
    /\ last_add = NoAdd
    /\ topics = PersistedTopics
    /\ pending_topics = <<>>
    /\ pending_topics_file = <<>>
    /\ flood_control_until = None
    /\ failed_topics = [i \in Invoices |-> None]
    /\ next_thread = Cardinality(Invoices) + 1
    /\ live_threads = Invoices
    /\ thread_owner = [t \in Invoices |-> t]
    /\ window_call = FALSE
    /\ last_flood = NoFlood
    /\ last_create = NoCreate
    /\ greeted = [i \in Invoices |-> 0]
    /\ removed_missing = {}
    /\ regreeted = {}
    /\ skip_greeted = FALSE
    /\ first_message_enabled \in BOOLEAN
    /\ poll = PollIdle
    /\ mon = MonAt("start", TRUE)
    /\ sync = SyncAt("idle", TRUE)
    /\ hist = HistIdle
    /\ history_runs = 0
    /\ deletes = 0
    /\ restarts = 0
    /\ messages_file = <<>>
    /\ check_round = NoRound
    /\ last_error = "none"
    /\ running = FALSE
    /\ topic_message = NoTopicMessage
    /\ ExtInit

\* Message delivery: the periodic check of the chats, the replay of the
\* pending messages and the /history command.
NextMsg ==
    \/ \E d \in ShortSteps : Tick(d)
    \/ \E c \in Invoices, m \in MsgIds : BuyerWrites(c, m)
    \/ StartPendingTopics
    \/ \E out \in SendOutcomes : MonCycle(out)
    \/ \E out \in SendOutcomes : MonSendPending(out)
    \/ \E c \in Invoices, m \in MsgIds, out \in SendOutcomes : CheckMessage(c, m, out)
    \/ \E t \in 1..MaxThreads, out \in SendOutcomes : HistoryStart(t, out)
    \/ \E out \in SendOutcomes : HistorySend(out)

SpecMsg == InitPersisted /\ [][NextMsg]_vars

\* The periodic check of the chats alone, every call of
\* process_single_message_check counted.  No message is pending here: the
\* calls are the only senders.
NextDeliver ==
    \/ \E d \in ShortSteps : Tick(d)
    \/ \E c \in Invoices, m \in MsgIds : BuyerWrites(c, m)
    \/ StartPendingTopics
    \/ \E c \in Invoices, m \in MsgIds, out \in SendOutcomes : CountedCheckMessage(c, m, out)

SpecDeliver == InitPersisted /\ [][NextDeliver]_vars

\* Recreation: the operator deletes threads, the reconciliation pass looks
\* for them, the pending thread creations are replayed, the process restarts.
NextRecreate ==
    \/ \E d \in LongSteps : Tick(d)
    \/ \E t \in 1..MaxThreads : DeleteThread(t)
    \/ StartPendingTopics
    \/ MonCycle(OkOut)
    \/ MonTopicItem
    \/ \E cout \in CreateOutcomes, s1, s2 \in PostOutcomes : MonTopicCreate(cout, s1, s2)
    \/ SyncStart
    \/ SyncDeletedDone
    \/ SyncProbe
    \/ \E cout \in CreateOutcomes, s1, s2 \in PostOutcomes : SyncDeletedCreate(cout, s1, s2)
    \/ \E feed \in {{}, Invoices} : SyncSales(feed)
    \/ SyncMissing
    \/ \E cout \in CreateOutcomes, s1, s2 \in PostOutcomes : SyncMissingCreate(cout, s1, s2)
    \/ Restart

SpecRecreate == InitPersisted /\ [][NextRecreate]_vars


\* Both cooldown windows at work: first-time creations by the poller, whose
\* creation call and whose posts the platform may answer with backpressure,
\* and the replay of both queues by the monitor.
NextWindows ==
    \/ \E d \in ShortSteps : Tick(d)
    \/ \E i \in Invoices : PollPick(i)
    \/ \E ok \in BOOLEAN : PollFetched(ok)
    \/ \E cout \in CreateOutcomes, s1, s2 \in SendOutcomes : PollCreate(cout, s1, s2)
    \/ StartPendingTopics
    \/ \E out \in SendOutcomes : MonCycle(out)
    \/ \E out \in SendOutcomes : MonSendPending(out)
    \/ MonTopicItem
    \/ \E cout \in CreateOutcomes, s1, s2 \in SendOutcomes : MonTopicCreate(cout, s1, s2)

SpecWindows == Init /\ [][NextWindows]_vars

\* The three tasks of start() on a first run, each with the unexpected error
\* ensure_ggsel_auth may raise in it.  No shutdown is requested.
NextTasks ==
    \/ \E d \in LongSteps : Tick(d)
    \/ \E i \in Invoices : PollPick(i)
    \/ \E ok \in BOOLEAN : PollFetched(ok)
    \/ \E cout \in CreateOutcomes, s1, s2 \in PostOutcomes : PollCreate(cout, s1, s2)
    \/ StartPendingTopics
    \/ MonCycle(OkOut)
    \/ MonTopicItem
    \/ \E cout \in CreateOutcomes, s1, s2 \in PostOutcomes : MonTopicCreate(cout, s1, s2)
    \/ MonitorAuthError
    \/ PollerError
    \/ ReauthError

SpecTasks == Init /\ [][NextTasks]_vars

\* Delivery over a crash: the periodic check of the chats, and a restart of
\* the process at any point between two calls.
NextCrash ==
    \/ \E d \in ShortSteps : Tick(d)
    \/ \E c \in Invoices, m \in MsgIds : BuyerWrites(c, m)
    \/ StartPendingTopics
    \/ \E c \in Invoices, m \in MsgIds : CountedCheckMessage(c, m, OkOut)
    \/ Restart

SpecCrash == InitPersisted /\ [][NextCrash]_vars

\* The cycles of monitor_messages over the threads of an earlier run: each
\* cycle starts its checks, and the checks read the chats.
NextRounds ==
    \/ \E d \in ShortSteps : Tick(d)
    \/ \E c \in Invoices, m \in MsgIds : BuyerWrites(c, m)
    \/ StartPendingTopics
    \/ MonCheckRound
    \/ \E c \in Invoices, m \in MsgIds : RoundCheckMessage(c, m, OkOut)

SpecRounds == InitPersisted /\ [][NextRounds]_vars

\* The Purchase Registry under every method of PurchaseManager that writes
\* it: add_purchase as the poller calls it, and cleanup_old_purchases.
NextRegistry ==
    \/ \E d \in LongSteps : Tick(d)
    \/ StartPendingTopics
    \/ \E i \in Invoices : PollPick(i)
    \/ \E ok \in BOOLEAN : PollFetched(ok)
    \/ \E cout \in CreateOutcomes : PollCreate(cout, OkOut, OkOut)
    \/ \E days \in CleanupDays : RegistryCleanup(days)

SpecRegistry == Init /\ [][NextRegistry]_vars

\* The operator writes in the threads of the purchases, and members and
\* bots write in every thread of the forum; the handler passes the text to
\* the buyer's chat, and the monitor replays the pending messages.
NextReply ==
    \/ \E d \in ShortSteps : Tick(d)
    \/ \E t \in 1..MaxThreads, command \in BOOLEAN : HandleTopicMessage(t, command)
    \/ \E t \in 1..ForeignThread, command, is_bot \in BOOLEAN : TopicUpdate(t, command, is_bot)
    \/ \E result \in BOOLEAN, out \in SendOutcomes : TopicMessageSent(result, out)
    \/ StartPendingTopics
    \/ \E out \in SendOutcomes : MonCycle(out)
    \/ \E out \in SendOutcomes : MonSendPending(out)

SpecReply == InitPersisted /\ [][NextReply]_vars

\* Deferred messages over a restart: the /history command with the
\* platform answering as it likes, the replay of the pending messages, and a
\* restart of the process at any point.
NextDeferred ==
    \/ \E d \in ShortSteps : Tick(d)
    \/ \E c \in Invoices, m \in MsgIds : BuyerWrites(c, m)
    \/ StartPendingTopics
    \/ \E out \in SendOutcomes : MonCycle(out)
    \/ \E out \in SendOutcomes : MonSendPending(out)
    \/ \E t \in 1..MaxThreads, out \in SendOutcomes : HistoryStart(t, out)
    \/ \E out \in SendOutcomes : HistorySend(out)
    \/ Restart

SpecDeferred == InitPersisted /\ [][NextDeferred]_vars

\* Reconciliation: the poller registers the purchases and its creations may
\* fail; the reconciliation pass runs at the start and again when it is due.
\* The platform answers a creation with a thread or with a failure, and
\* accepts the posts to a new thread.  The clock advances by the failure
\* cooldown.
NextReconcile ==
    \/ Tick(FailedCooldown)
    \/ \E i \in Invoices : PollPick(i)
    \/ \E ok \in BOOLEAN : PollFetched(ok)
    \/ \E cout \in PostOutcomes : PollCreate(cout, OkOut, OkOut)
    \/ StartPendingTopics
    \/ SyncStart
    \/ SyncDeletedDone
    \/ SyncProbe
    \/ \E feed \in {{}, Invoices} : SyncSales(feed)
    \/ SyncMissing
    \/ \E cout \in PostOutcomes : SyncMissingCreate(cout, OkOut, OkOut)
    \/ SyncDue

SpecReconcile == Init /\ [][NextReconcile]_vars

\* the pass takes invoice i of missing_invoice_ids, its details are fetched
\* and its creation is not held back by the failure cooldown
SyncAttempts(i) ==
    SyncMissing /\ sync'.pc = "missing_create" /\ sync'.purchase.invoice_id = i

\* The event loop runs every task that can take a step; the pass comes due
\* again and again; the marketplace answers the feed and the details, and
\* the platform accepts a creation, at some time whenever they are asked
\* again and again.
FairReconcile ==
    /\ WF_vars(StartPendingTopics)
    /\ WF_vars(SyncStart)
    /\ WF_vars(SyncDeletedDone)
    /\ WF_vars(SyncProbe)
    /\ WF_vars(SyncDue)
    /\ WF_vars(\E feed \in {{}, Invoices} : SyncSales(feed))
    /\ WF_vars(SyncMissing)
    /\ WF_vars(\E cout \in PostOutcomes : SyncMissingCreate(cout, OkOut, OkOut))
    /\ SF_vars(SyncSales(Invoices))
    /\ \A i \in Invoices : SF_vars(SyncAttempts(i))
    /\ SF_vars(SyncMissingCreate(OkOut, OkOut, OkOut))

SpecReconcileFair == SpecReconcile /\ FairReconcile

\* Authentication: the three tasks that call ensure_ggsel_auth, logins that
\* succeed or fail, and the clock moving within and past the validity window.
NextAuth ==
    \/ \E d \in AuthSteps : Tick(d)
    \/ StartPendingTopics
    \/ \E task \in AuthTasks : AuthCall(task)
    \/ \E task \in AuthTasks, success \in BOOLEAN : LoginDone(task, success)
    \/ PollSales

SpecAuth == InitPersisted /\ [][NextAuth]_vars

\* The rounds of per-thread checks: check_topics_parallel over 1 to MaxChats
\* purchase threads, the tasks of a round running concurrently.
NextParallel ==
    \/ \E n \in CheckTasks : CheckTopicsParallel(n)
    \/ \E k \in CheckTasks : CheckResumed(k)
    \/ \E k \in CheckTasks : CheckFinished(k)

SpecParallel == Init /\ [][NextParallel]_vars

\* the tasks that call _check_single_chat on their own, and their chats
LockCallers == 1..3

\* _check_single_chat under concurrent callers that may name the same chat
NextChatLock ==
    \/ \E k \in LockCallers, c \in Invoices : CheckSingleChat(k, c)
    \/ \E k \in LockCallers : CheckResumed(k)
    \/ \E k \in LockCallers : CheckFinished(k)

SpecChatLock == Init /\ [][NextChatLock]_vars

\* The pass over the directory under every answer of the existence probe:
\* the operator deletes a thread, check_deleted_topics probes each entry,
\* and the entries found missing are created again.  One pass.
NextProbe ==
    \/ \E t \in 1..MaxThreads : DeleteThread(t)
    \/ StartPendingTopics
    \/ SyncStart
    \/ SyncDeletedDone
    \/ \E err \in ProbeTexts : SyncProbeAnswer(err)
    \/ \E cout \in CreateOutcomes : SyncDeletedCreate(cout, OkOut, OkOut)

SpecProbe == InitPersisted /\ [][NextProbe]_vars

\* _make_request called MaxRequests times, each request answered with every
\* status and every failure
NextRequest ==
    \/ RequestStart
    \/ \E outcome \in RequestOutcomes : RequestAnswer(outcome)

SpecRequest == Init /\ [][NextRequest]_vars

\* The reviews: a buyer writes a review and changes it, the monitor starts
\* check_new_reviews again and again without waiting for the call before,
\* and the checkers fetch and process.
NextReviews ==
    \/ \E i \in ReviewInvoices : BuyerWritesReview(i)
    \/ BuyerEditsReview
    \/ \E r \in ReviewRuns : ReviewsStart(r)
    \/ \E r \in ReviewRuns, ch \in Checkers, ok \in BOOLEAN, out \in SendOutcomes :
          ReviewFetched(r, ch, ok, out)
    \/ \E r \in ReviewRuns, out \in SendOutcomes : ReviewProcessed(r, out)

SpecReviews == InitPersisted /\ [][NextReviews]_vars
\* ------------------------------------------------------------------ claims

\* C1: for every (channel, message) pair, delivering the same inbound message
\* twice with process_single_message_check, with no message cooldown active
\* and the platform accepting the post, posts the content to the thread
\* exactly once.
C1_DeliveredTwicePostedOnce ==
    \A c \in Invoices, m \in MsgIds :
        (deliver_calls[<<c, m>>] = 2 /\ TopicKey(c) \in DOMAIN topics)
            => Copies(thread_posts, topics[TopicKey(c)].topic_id, ContentText(c, m)) = 1

\* C2: across the periodic message check, the replay of the pending messages
\* and the /history reload, the platform post of one (channel_id, message_id)
\* identity has succeeded at most once.
C2_PostedAtMostOnce == \A k \in Identities : post_count[k] <= 1

\* the threads the platform opened for invoice i
ThreadsOf(i) == {t \in DOMAIN thread_owner : thread_owner[t] = i}

\* C3: for every invoice, under any interleaving of the purchase poller, the
\* pending replay and the reconciliation pass, the platform creates at most
\* one thread unless the thread was detected missing in between: no second
\* (orphan) thread is opened for an invoice.
C3_OneThreadPerInvoice ==
    \A i \in Invoices : i \notin removed_missing => Cardinality(ThreadsOf(i)) <= 1

PollFetchedStep == poll.pc = "fetch" /\ poll'.pc # "fetch"

\* the step of the poller that ends its create_topic_for_purchase call
PollCreateStep == poll.pc = "create" /\ poll'.pc = "idle"

NoCooldown == ~Active(flood_control_until, now) /\ ~Active(message_flood_control_until, now)

SummaryPosted(i, t) ==
    Copies(thread_posts', t, SummaryText(i, FALSE))
        = Copies(thread_posts, t, SummaryText(i, FALSE)) + 1

EntryRecorded(i, t) ==
    TopicKey(i) \in DOMAIN topics' /\ topics'[TopicKey(i)].topic_id = t

InsertedAndInvoked ==
    (PollFetchedStep /\ last_add'.fetched /\ ~last_add'.known /\ NoCooldown)
        => (last_add'.result /\ poll'.pc = "create" /\ poll'.inv = poll.inv)

\* C5 as stated: for an invoice never seen before that appears in the feed,
\* when the detail fetch succeeds and no cooldown is active, the registry
\* insert returns true, thread creation is invoked, an entry for the invoice
\* is recorded and the summary of the invoice is posted into the new thread.
C5_NewPurchaseGetsThread ==
    [][/\ InsertedAndInvoked
       /\ (PollCreateStep /\ NoCooldown)
             => (EntryRecorded(poll.inv, next_thread) /\ SummaryPosted(poll.inv, next_thread))
      ]_vars

\* C5, amended: for an invoice never seen before that appears in the feed,
\* when the detail fetch succeeds and no cooldown is active, the registry
\* insert returns true and thread creation is invoked; when the platform then
\* creates the thread, an entry for the invoice is recorded, and when it also
\* accepts the summary, the summary is posted into the new thread.
C5_NewPurchaseGetsThreadIfAccepted ==
    [][/\ InsertedAndInvoked
       /\ (PollCreateStep /\ last_create'.answer = "ok")
             => EntryRecorded(poll.inv, next_thread)
       /\ (PollCreateStep /\ last_create'.answer = "ok" /\ last_create'.post = "ok"
                          /\ ~Active(message_flood_control_until, now))
             => SummaryPosted(poll.inv, next_thread)
      ]_vars

\* the poller recorded a new invoice, created its thread and posted the summary
C5_Witness ==
    /\ poll.pc = "idle" /\ sync.due /\ last_flood = NoFlood
    /\ last_add.fetched /\ ~last_add.known /\ last_add.result
    /\ last_create.invoice_id = last_add.invoice_id
    /\ last_create.answer = "ok" /\ last_create.post = "ok"
    /\ TopicKey(last_add.invoice_id) \in DOMAIN topics
    /\ Copies(thread_posts, topics[TopicKey(last_add.invoice_id)].topic_id,
              SummaryText(last_add.invoice_id, FALSE)) = 1

\* C6: add_purchase on an invoice the registry already holds returns false
\* and leaves the registry unchanged: the stored record of an invoice is
\* never overwritten, and the registry changes only by the insert of an
\* unknown invoice that returns true.
C6_IdempotentInsert ==
    [][/\ \A i \in DOMAIN processed_purchases :
             i \in DOMAIN processed_purchases'
                 /\ processed_purchases'[i] = processed_purchases[i]
       /\ last_add'.known => ~last_add'.result
       /\ processed_purchases' # processed_purchases
             => /\ ~last_add'.known /\ last_add'.result
                /\ DOMAIN processed_purchases'
                       = DOMAIN processed_purchases \cup {last_add'.invoice_id}
      ]_vars

\* a second add_purchase of a fetched purchase, made later than the first
C6_Witness ==
    /\ last_add.fetched /\ last_add.known /\ ~last_add.result
    /\ processed_purchases[last_add.invoice_id].processed_at < now

\* C7: once create_forum_topic answered with backpressure of D seconds, the
\* creation cooldown is active for the D seconds that follow, and no
\* create_topic_for_purchase call reaches the platform while it is active.
C7_NoCreateInWindow ==
    /\ (last_flood # NoFlood /\ now < last_flood.at + last_flood.d)
           => Active(flood_control_until, now)
    /\ ~window_call

\* C8: no invoice occurs more than once in pending_topics, whichever of the
\* poller, the pending replay or the reconciliation pass enqueued it.
C8_PendingOncePerInvoice ==
    \A a, b \in 1..Len(pending_topics) :
        a # b => pending_topics[a].purchase.invoice_id # pending_topics[b].purchase.invoice_id

\* a step that changes what send_message_with_cooldown works on
SendStep ==
    <<last_send, pending_messages, message_flood_control_until, thread_posts>>'
        # <<last_send, pending_messages, message_flood_control_until, thread_posts>>

LastOf(s) == s[Len(s)]

\* C9 as stated: when the platform answers a post with backpressure the
\* message is enqueued, and every send attempt made before the deadline of
\* the message cooldown is deferred: it is enqueued, returns false and does
\* not call the platform.
C9_EveryAttemptDeferred ==
    /\ last_send.flood # 0 =>
          pending_messages # <<>> /\ LastOf(pending_messages) = last_send.item
    /\ last_send.active =>
          /\ ~last_send.called
          /\ ~last_send.result
          /\ pending_messages # <<>> /\ LastOf(pending_messages) = last_send.item

C9_Step ==
    LET s == last_send' IN
    /\ s.active => ~s.called /\ s.result = s.dedup
    /\ (SendStep /\ s.active) =>
          /\ thread_posts' = thread_posts
          /\ post_count' = post_count
          /\ message_flood_control_until' = message_flood_control_until
          /\ pending_messages' = IF s.dedup THEN pending_messages
                                 ELSE Append(pending_messages, s.item)
    /\ (SendStep /\ s.flood # 0) =>
          /\ message_flood_control_until' = now + s.flood + SafetyMargin
          /\ pending_messages' # <<>> /\ LastOf(pending_messages') = s.item
          /\ ~s.result

\* C9, amended: when the platform answers a post with backpressure of D
\* seconds, the message cooldown is set to now + D + 5 and the message is
\* enqueued; no send attempt made before the deadline calls the platform; it
\* is enqueued and returns false, unless its identity is already marked sent,
\* and then it returns true and is not enqueued.
C9_NoCallBeforeDeadline == [][C9_Step]_vars

\* a send attempt made before the deadline, after time has passed, is in the
\* queue behind the message that met the backpressure
C9_Witness ==
    /\ last_send.active /\ ~last_send.dedup /\ ~last_send.called /\ ~last_send.result
    /\ Len(pending_messages) >= 2
    /\ LastOf(pending_messages) = last_send.item
    /\ now > 1

\* C10: a recreation started with skip_greeting sends no greeting, and no
\* invoice whose thread was removed as missing is later given a thread
\* through a path that greets.
C10_NoGreetingOnRecreation == ~skip_greeted /\ regreeted = {}


\* C11: with the greeting enabled, an invoice that holds a thread made by
\* first-time creation has had the buyer-greeting send invoked exactly once.
C11_GreetedExactlyOnce ==
    \A i \in Invoices :
        (first_message_enabled /\ TopicKey(i) \in DOMAIN topics /\ i \notin removed_missing)
            => greeted[i] = 1

\* the invoices whose entry the step takes out of the Thread Directory
Unfiled == {i \in Invoices : TopicKey(i) \in DOMAIN topics /\ TopicKey(i) \notin DOMAIN topics'}

\* a creation with skip_greeting for invoice i is under way or queued
RecreationInvoked(i) ==
    \/ sync'.pc = "deleted_create" /\ sync'.purchase.invoice_id = i
    \/ \E k \in 1..Len(pending_topics') :
         /\ pending_topics'[k].purchase.invoice_id = i
         /\ pending_topics'[k].skip_greeting

\* C12: when the probe of check_deleted_topics reports a known thread as
\* missing, the entry of its invoice is removed and thread creation with
\* skip_greeting is invoked for that invoice.
C12_MissingThreadRecreated ==
    [][\A i \in Unfiled : sync.pc = "deleted" /\ RecreationInvoked(i)]_vars

\* the invoices that hold an entry of the Thread Directory tp
Filed(tp) == {i \in Invoices : TopicKey(i) \in DOMAIN tp}

\* the step stores an entry for invoice i: a new one, or another one in the
\* place of the one it had
StoresEntry(i) ==
    /\ i \in Filed(topics')
    /\ i \in Filed(topics) => topics'[TopicKey(i)] # topics[TopicKey(i)]

\* C13: purchases of one buyer with different invoice ids have each their own
\* ThreadEntry under their own invoice id: a step that stores the entry of
\* one invoice stores it under that invoice's key with that invoice's id, and
\* leaves the entry of every other invoice as it was.
C13_OwnEntryPerInvoice ==
    [][\A i \in Invoices :
         StoresEntry(i) =>
            /\ topics'[TopicKey(i)].invoice_id = i
            /\ \A j \in Filed(topics) \ {i} :
                 /\ j \in Filed(topics')
                 /\ topics'[TopicKey(j)] = topics[TopicKey(j)]
                 /\ Email(j) = Email(i) => topics'[TopicKey(j)].invoice_id = j]_vars

\* two invoices of the same buyer hold an entry each, for two threads
C13_Witness ==
    /\ Filed(topics) = Invoices
    /\ \A i \in Invoices : topics[TopicKey(i)].invoice_id = i
    /\ \A i, j \in Invoices :
         /\ topics[TopicKey(i)].email = topics[TopicKey(j)].email
         /\ i # j => /\ topics[TopicKey(i)].topic_id # topics[TopicKey(j)].topic_id
                     /\ topics[TopicKey(i)].topic_id \in live_threads

\* C14: an unexpected error raised inside monitor_messages, purchase_checker
\* or reauth_scheduler stops neither the other tasks nor the service: with no
\* shutdown requested, the service is running after any such error.
C14_ErrorsDoNotStopService == last_error # "none" => running

\* C15: when process_new_purchase gives up because the purchase detail could
\* not be fetched, the invoice is in the Purchase Registry when the call
\* returns, so that is_purchase_processed answers true for it.
C15_AbandonedInvoiceRecorded ==
    [][(PollFetchedStep /\ ~last_add'.fetched)
        => is_purchase_processed(processed_purchases', poll.inv)]_vars

\* C16: a DedupRecord of the ledger keeps the identity, the content, the
\* original timestamp and the processing timestamp it was created with, and
\* its delivered-to-platform flag never goes back from true to false.
C16_RecordImmutable ==
    [][\A k \in DOMAIN processed_messages \cap DOMAIN processed_messages' :
         /\ processed_messages'[k].chat_id = processed_messages[k].chat_id
         /\ processed_messages'[k].message_id = processed_messages[k].message_id
         /\ processed_messages'[k].content = processed_messages[k].content
         /\ processed_messages'[k].timestamp = processed_messages[k].timestamp
         /\ processed_messages'[k].processed_at = processed_messages[k].processed_at
         /\ processed_messages[k].sent_to_telegram
               => processed_messages'[k].sent_to_telegram]_vars

\* a record was marked as delivered to the platform after the time it was
\* created at
C16_Witness ==
    \E k \in DOMAIN processed_messages :
        /\ processed_messages[k].sent_to_telegram
        /\ processed_messages[k].sent_at > processed_messages[k].processed_at

\* the step is a call of process_single_message_check for identity k
Delivery(k) == deliver_calls'[k] > deliver_calls[k]

\* C17: the ledger entry of an inbound message is on file when the call that
\* wrote it ends, it is kept with its processing time over every later step
\* and over a restart, and a later delivery of the same message changes
\* neither the ledger nor the posts of any thread.
C17_NoReprocessing ==
    [][\A k \in Identities :
         /\ k \in DOMAIN processed_messages' => k \in DOMAIN messages_file'
         /\ k \in DOMAIN processed_messages =>
               /\ k \in DOMAIN processed_messages'
               /\ processed_messages'[k].processed_at = processed_messages[k].processed_at
               /\ post_count'[k] <= 1
               /\ Delivery(k) => UNCHANGED <<processed_messages, thread_posts, post_count>>]_vars

\* after a restart the monitor has been given again, at a later time, a
\* message that the ledger held before
C17_Witness ==
    \E k \in DOMAIN processed_messages :
        /\ restarts = 1
        /\ running
        /\ deliver_calls[k] = 2
        /\ processed_messages[k].processed_at < now
        /\ post_count[k] = 0

\* the threads of the latest cycle outside its hot set
ColdSet == DOMAIN check_round.known \ HotSet(check_round.known, HotSize)

CreationDeferred == Len(pending_topics') > Len(pending_topics)

\* the step defers a message send: the queue of pending messages grows
SendDeferred == Len(pending_messages') > Len(pending_messages)

\* the creation window after the step is the one before it, or the step
\* cleared a window that was over, or set it from the backpressure the
\* platform answered to a creation call
CreationWindowOwn ==
    \/ flood_control_until' = flood_control_until
    \/ flood_control_until' = None /\ ~Active(flood_control_until, now)
    \/ /\ last_flood' = [at |-> now, d |-> last_flood'.d]
       /\ Truthy(last_flood'.d)
       /\ last_create'.answer = "flood"
       /\ flood_control_until' = now + last_flood'.d + SafetyMargin

\* the same for the message window and the backpressure answered to a send
\* of the step (to its last send, or to one before it that the last send
\* found the window set by)
MessageWindowOwn ==
    \/ message_flood_control_until' = message_flood_control_until
    \/ message_flood_control_until' = None /\ ~Active(message_flood_control_until, now)
    \/ /\ Truthy(last_send'.flood) \/ last_send'.active
       /\ \E d \in Durations : message_flood_control_until' = now + d + SafetyMargin

\* C19: the two cooldown windows are independent.  A creation call is
\* deferred only by an active creation window or by backpressure on a
\* creation call, a message send only by an active message window or by
\* backpressure on a send, and each window is set and cleared by its own
\* class of calls alone.
C19_WindowsIndependent ==
    [][/\ CreationDeferred =>
            (Active(flood_control_until, now) \/ last_create'.answer = "flood")
       /\ SendDeferred => (last_send'.active \/ Truthy(last_send'.flood))
       /\ CreationWindowOwn
       /\ MessageWindowOwn]_vars

\* a thread was created and its summary deferred while the message window was
\* active and the creation window was not
C19_Witness ==
    /\ Active(message_flood_control_until, now)
    /\ ~Truthy(flood_control_until)
    /\ last_create.answer = "ok"
    /\ last_send.active /\ ~last_send.called
    /\ last_send.item.text.kind \in {"summary", "greeting_note"}
    /\ TopicKey(last_create.invoice_id) \in DOMAIN topics

\* C20 as stated: the registry is append-only, a stored record is neither
\* changed nor removed.
C20_AppendOnly ==
    [][\A i \in DOMAIN processed_purchases :
         /\ i \in DOMAIN processed_purchases'
         /\ processed_purchases'[i] = processed_purchases[i]]_vars

\* C20: a stored record is never changed, and it is removed only by
\* cleanup_old_purchases, when it was processed before the cutoff of the
\* call; a step that adds a record removes none.
C20_AppendOnlyButCleanup ==
    [][\A i \in DOMAIN processed_purchases :
         IF i \in DOMAIN processed_purchases'
         THEN processed_purchases'[i] = processed_purchases[i]
         ELSE /\ \E days \in CleanupDays :
                   processed_purchases[i].processed_at < now - days * DaySeconds
              /\ DOMAIN processed_purchases' \subseteq DOMAIN processed_purchases
              /\ last_add' = last_add]_vars

\* a record that add_purchase stored was removed by a cleanup while a younger
\* one stayed
C20_Witness ==
    /\ last_add.result
    /\ \E i \in Invoices \ DOMAIN processed_purchases, j \in DOMAIN processed_purchases :
         /\ TopicKey(i) \in DOMAIN topics
         /\ processed_purchases[j].processed_at = now

\* the error note of the handler is in the queue of pending messages for
\* thread t
NoteQueued(pend, t) ==
    \E k \in 1..Len(pend) : pend[k] = PendingItem(ErrorNote, t, None, None)

\* C21: when the send of an operator message to the buyer's chat has
\* failed, the handler leaves an error note posted in the thread or queued
\* for it; the failure is never dropped silently.
C21_FailedSendReported ==
    [][(topic_message.pc = "send" /\ topic_message'.pc = "idle"
            /\ topic_message'.result = "failed")
        => \/ Copies(thread_posts', topic_message.topic_id, ErrorNote)
                 > Copies(thread_posts, topic_message.topic_id, ErrorNote)
           \/ NoteQueued(pending_messages', topic_message.topic_id)]_vars

\* the invoices of a pending queue or of its file
QueuedInvoices(q) == {q[k].purchase.invoice_id : k \in 1..Len(q)}

\* no call of process_pending_topics or create_topic_for_purchase is under way
QueueAtRest ==
    /\ mon.pc \in {"check", "stopped"}
    /\ poll.pc # "create"
    /\ sync.pc \notin {"deleted_create", "missing_create"}

\* C22: whenever process_pending_topics and create_topic_for_purchase have
\* returned, pending_topics.json holds exactly the invoices of the pending
\* queue in memory.
C22_FileMirrorsQueue ==
    QueueAtRest => QueuedInvoices(pending_topics_file) = QueuedInvoices(pending_topics)

\* after the step the message is in the queue of pending messages, or the
\* ledger does not know it, so that the next check of its chat takes it up
StillOwed(msg) ==
    \/ \E k \in 1..Len(pending_messages') : pending_messages'[k] = msg
    \/ /\ Truthy(msg.chat_id)
       /\ Truthy(msg.message_id)
       /\ ~is_message_processed(processed_messages', msg.chat_id, msg.message_id)

\* C23: a message deferred by the message cooldown survives a restart of
\* the process: the new process still has it to replay.
C23_DeferredSurvivesRestart ==
    [][restarts' = restarts + 1
        => \A k \in 1..Len(pending_messages) : StillOwed(pending_messages[k])]_vars

\* invoice i is in the registry and has no entry in the directory
RegisteredUnfiled(i) ==
    is_purchase_processed(processed_purchases, i) /\ TopicKey(i) \notin DOMAIN topics

\* the failure cooldown of invoice i is over at some time, again and again
CooldownEnds(i) == []<>(~FailedRecently(failed_topics, i, now, FailedCooldown))

StepUnderWay ==
    \/ mon.pc \in {"pm_loop", "pt_loop", "pt_create"}
    \/ poll.pc = "create"
    \/ sync.pc \in {"deleted_create", "missing_create"}
    \/ hist.pc = "send"
    \/ topic_message.pc = "send"

\* C25: the process is shut down between the steps of a tick only; no
\* replay, creation or delivery under way is cut off by the exit.
C25_ExitBetweenSteps ==
    [][restarts' = restarts + 1 => ~StepUnderWay]_vars

\* the messages process_pending_messages has before it at the monitor's next
\* step: the rest of a replay under way, or the queue a cycle would replay
ReplayMsgs ==
    IF mon.pc = "pm_loop" THEN mon.msgs
    ELSE IF mon.pc = "check" /\ ~Active(message_flood_control_until, now)
    THEN pending_messages
    ELSE <<>>

\* the step posts the message to its thread, or the queue holds it afterwards
PostedOrQueued(msg) ==
    \/ \E k \in 1..Len(pending_messages') : pending_messages'[k] = msg
    \/ Copies(thread_posts', msg.topic_id, msg.text)
           > Copies(thread_posts, msg.topic_id, msg.text)

\* C26: when process_pending_messages returns, every message it had still
\* before it, the ones after a send that met backpressure included, has been
\* posted or is in the queue again.
C26_ReplayLosesNoMessage ==
    [][(/\ mon.pc \in {"check", "pm_loop"}
        /\ mon'.pc \in {"check", "pt_loop", "pt_create"}
        /\ restarts' = restarts)
        => \A k \in 1..Len(ReplayMsgs) : PostedOrQueued(ReplayMsgs[k])]_vars

\* the first item of the replay that is not skipped as young, if the loop of
\* process_pending_topics is about to take its next item
NextAttempt == SkipYoung(pending_topics, mon.tps, now).items

\* The step ends a replay of the pending creations by its break: the creation
\* that returns, or the one that starts, found backpressure.
ReplayInterrupted ==
    \/ mon.pc = "pt_create" /\ mon' # mon /\ Truthy(flood_control_until')
    \/ /\ mon.pc = "pt_loop" /\ mon' # mon
       /\ NextAttempt # <<>>
       /\ CtfpGate(Head(NextAttempt).purchase.invoice_id, topics, flood_control_until)
             = "enqueue"

\* the invoices that have to be in the queue after the break: the one whose
\* creation was answered with backpressure or deferred, the ones not yet
\* attempted, and the ones the queue held
OwedInvoices ==
    QueuedInvoices(pending_topics) \cup QueuedInvoices(mon.tps)
        \cup (IF mon.pc = "pt_create" /\ last_create'.answer = "flood"
                    /\ last_create'.invoice_id = mon.cur.purchase.invoice_id
                    /\ last_flood'.at = now
              THEN {mon.cur.purchase.invoice_id} ELSE {})

\* C27: when a replay of the pending creations is interrupted by
\* backpressure, the item that met it and every item not yet attempted are
\* in the queue and in pending_topics.json when process_pending_topics
\* returns.
C27_InterruptedReplayKeepsItems ==
    [][ReplayInterrupted =>
         /\ mon'.pc = "check"
         /\ OwedInvoices \subseteq QueuedInvoices(pending_topics')
         /\ OwedInvoices \subseteq QueuedInvoices(pending_topics_file')]_vars

\* a replay of two items was interrupted at its first: the item answered
\* with backpressure is queued anew and the older one is queued and on file
C27_Witness ==
    /\ mon.pc = "check"
    /\ last_create.answer = "flood"
    /\ last_flood.at = now
    /\ Len(pending_topics) = 2
    /\ pending_topics[1].timestamp = now
    /\ pending_topics[1].purchase.invoice_id = last_create.invoice_id
    /\ pending_topics[2].timestamp < now
    /\ QueuedInvoices(pending_topics_file) = Invoices

\* the invoice of a creation that returns in this step with the platform's
\* answer "fail": neither a thread nor backpressure (create_topic returns
\* (None, None)); 0 if no creation returns so
FailedCreation ==
    IF /\ poll.pc = "create" /\ poll'.pc # "create"
       /\ last_create' = [invoice_id |-> poll.inv, answer |-> "fail", post |-> "none"]
    THEN poll.inv
    ELSE IF /\ mon.pc = "pt_create" /\ mon'.pc # "pt_create"
            /\ last_create' = [invoice_id |-> mon.cur.purchase.invoice_id,
                               answer |-> "fail", post |-> "none"]
    THEN mon.cur.purchase.invoice_id
    ELSE None

\* C28: a creation that fails with a retryable error puts a pending item
\* for its invoice in the queue, under the failure cooldown of the invoice.
C28_FailureSchedulesRetry ==
    [][Truthy(FailedCreation)
        => /\ failed_topics'[FailedCreation] = now
           /\ FailedCreation \in QueuedInvoices(pending_topics')]_vars

\* C29: a creation that fails without backpressure touches its own invoice
\* only: the creation cooldown and the failure times of the other invoices
\* stay as they are, and a replay of the pending creations goes on to its
\* next item with the queue as it was.
C29_FailureIsLocal ==
    [][Truthy(FailedCreation)
        => /\ flood_control_until' = flood_control_until
           /\ \A j \in Invoices \ {FailedCreation} : failed_topics'[j] = failed_topics[j]
           /\ (mon.pc = "pt_create" /\ mon'.pc # "pt_create" /\ ~Truthy(flood_control_until))
                => /\ pending_topics' = pending_topics
                   /\ mon.tps # <<>> => mon'.pc = "pt_loop" /\ mon'.tps = mon.tps]_vars

\* a replay of two items whose first creation has just failed: no cooldown
\* is set and the second item is the next one of the loop
C29_Witness ==
    /\ mon.pc = "pt_loop"
    /\ mon.tps # <<>>
    /\ last_create.answer = "fail"
    /\ failed_topics[last_create.invoice_id] = now
    /\ last_create.invoice_id \notin QueuedInvoices(mon.tps)
    /\ ~Truthy(flood_control_until)

\* the items the loop of process_pending_topics has before it at the
\* monitor's next step: the rest of a replay under way, or the queue
ReplayList == IF mon.pc = "pt_loop" THEN mon.tps ELSE pending_topics

\* the items at the head of a list that are younger than the grace period
RECURSIVE LeadingYoung(_)
LeadingYoung(items) ==
    IF items # <<>> /\ Young(Head(items), now)
    THEN {Head(items)} \cup LeadingYoung(Tail(items))
    ELSE {}

\* a step of the monitor that may run the loop of process_pending_topics
ReplayStep ==
    /\ mon.pc \in {"start", "check", "pm_loop", "pt_loop"}
    /\ mon' # mon
    /\ restarts' = restarts

\* C30: during a replay of the pending creations an item queued less than
\* 30 seconds ago is not attempted against the platform and is put back in
\* the queue as it was.
C30_YoungItemsRequeued ==
    [][ReplayStep =>
         /\ \A data \in LeadingYoung(ReplayList) :
               \E k \in 1..Len(pending_topics') : pending_topics'[k] = data
         /\ mon'.pc = "pt_create" => ~Young(mon'.cur, now)]_vars

\* after a restart, start() has run the replay over a queue loaded a moment
\* ago: the file was cleared, nothing was created, the item is in the queue
\* with the time of loading
C30_Witness ==
    /\ restarts = 1
    /\ mon.pc = "check"
    /\ pending_topics # <<>>
    /\ Young(pending_topics[1], now)
    /\ pending_topics_file = <<>>
    /\ last_create = NoCreate

\* ---------------------------------------------------------------- C31
LoginIssued(task) == auth_wait[task] = None /\ Truthy(auth_wait'[task])

LoginFailed(task) ==
    /\ Truthy(auth_wait[task])
    /\ auth_wait'[task] = None
    /\ last_login' = [task |-> task, ok |-> FALSE]

InFlight == {k \in CheckTasks : checks[k].pc \in Holding}

\* C32: at every moment at most 10 _check_single_chat calls of a round of
\* check_topics_parallel have started and not returned, for every number of
\* purchase threads.
C32_AtMostTenInFlight == Cardinality(InFlight) <= SemaphoreLimit

\* a round over more than 10 threads: 10 checks in flight and a task
\* waiting for a place of the semaphore
C32_Witness ==
    /\ \E k \in CheckTasks : checks[k].pc = "sem"
    /\ Cardinality(InFlight) = SemaphoreLimit

\* ---------------------------------------------------------------- C33
\* task k is between the fetch of its chat's messages and the end of
\* their delivery
Checking(k) == checks[k].pc = "check"

\* C33: no two _check_single_chat calls for the same chat are between the
\* fetch of the chat's messages and the end of their delivery at the same
\* time.
C33_NoOverlapPerChat ==
    \A k1, k2 \in CheckTasks :
        (k1 # k2 /\ Checking(k1) /\ Checking(k2)) => checks[k1].chat_id # checks[k2].chat_id

\* one call is at work on the messages of a chat while a second call for the
\* same chat waits for the lock
C33_Witness ==
    \E k1, k2 \in CheckTasks :
        /\ checks[k1].pc = "check"
        /\ checks[k2].pc = "lock"
        /\ checks[k1].chat_id = checks[k2].chat_id

\* ---------------------------------------------------------------- C34
HasEntry(i) == TopicKey(i) \in DOMAIN topics

NoCooldownFor(i) ==
    /\ ~Active(flood_control_until, now)
    /\ ~FailedRecently(failed_topics, i, now, FailedCooldown)

\* the step in which process_new_purchase calls create_topic_for_purchase
\* for invoice i
PollerCalls(i) ==
    /\ poll.pc = "fetch"
    /\ poll.inv = i
    /\ poll' # poll
    /\ restarts' = restarts

\* the step in which the loop of sync_topics_with_purchases over the missing
\* invoices calls create_topic_for_purchase for invoice i
SyncCalls(i) ==
    /\ sync.pc = "missing"
    /\ i \in sync.missing
    /\ sync' # sync
    /\ i \notin sync'.missing
    /\ restarts' = restarts

\* the directory, the queue and its file, the platform and the greetings
Untouched ==
    UNCHANGED <<topics, pending_topics, pending_topics_file, thread_posts, post_count,
                pending_messages, next_thread, live_threads, thread_owner, last_create,
                greeted>>

EntriesOf(i) == {k \in DOMAIN topics : topics[k].invoice_id = i}

\* C34: a call of create_topic_for_purchase for an invoice that has a
\* ThreadEntry, made while no cooldown is active, returns before the platform
\* call and leaves the directory, the pending queue, the threads and the
\* greetings as they were; a replayed item goes on to the platform call only
\* while its invoice has no entry; and the directory never holds two entries
\* of one invoice.
C34_ExistingEntryIsLeftAlone ==
    /\ [](\A i \in Invoices : Cardinality(EntriesOf(i)) <= 1)
    /\ [][/\ \A i \in Invoices :
               (HasEntry(i) /\ NoCooldownFor(i)) =>
                   /\ PollerCalls(i) => (Untouched /\ poll'.pc # "create")
                   /\ SyncCalls(i) => (Untouched /\ sync'.pc # "missing_create")
          /\ (ReplayStep /\ mon'.pc = "pt_create") =>
                 ~HasEntry(mon'.cur.purchase.invoice_id)]_vars

\* the reconciliation has called create_topic_for_purchase for an invoice
\* that the poller had registered and given a thread in the meantime: the
\* one thread of the invoice is the poller's, and nothing is queued
C34_Witness ==
    \E i \in Invoices :
        /\ last_add.invoice_id = i
        /\ last_add.known
        /\ HasEntry(i)
        /\ sync.pc \in {"missing", "idle"}
        /\ i \notin sync.missing
        /\ poll = PollIdle
        /\ pending_topics = <<>>
        /\ ~Active(flood_control_until, now)
        /\ failed_topics[i] = None
        /\ Cardinality({t \in DOMAIN thread_owner : thread_owner[t] = i}) = 1

\* ---------------------------------------------------------------- C35
\* the errors that say the thread is not there
ThreadMissingErrors == {"topic_deleted", "message thread not found", "topic_id_invalid"}

\* a step of check_deleted_topics that probed an entry and got an error of
\* another kind
OtherProbeError ==
    /\ sync.pc = "deleted"
    /\ sync' # sync
    /\ sync.todo # {}
    /\ last_probe'.error \notin ThreadMissingErrors

\* C35: a probe that fails with any error other than 'not found / deleted /
\* invalid thread' removes no ThreadEntry and starts no recreation.
C35_OtherErrorsMeanAlive ==
    [][OtherProbeError =>
         /\ topics' = topics
         /\ removed_missing' = removed_missing
         /\ sync'.pc # "deleted_create"]_vars

\* ---------------------------------------------------------------- C36
\* C36: in every state a record of the ledger has sent_to_telegram set
\* exactly when the platform has accepted a post that carried the record's
\* (chat_id, message_id).
C36_FlagMatchesPosts ==
    \A key \in DOMAIN processed_messages :
        processed_messages[key].sent_to_telegram <=> post_count[key] > 0

\* ---------------------------------------------------------------- C37
\* what the ledger holds for identity k
RecordOf(ledger, k) == IF k \in DOMAIN ledger THEN <<ledger[k]>> ELSE <<>>

\* the identities whose record or whose count of accepted posts a step changes
Touched ==
    {k \in Identities : \/ RecordOf(processed_messages', k) # RecordOf(processed_messages, k)
                        \/ post_count'[k] # post_count[k]}

\* the identity of the latest send_message_with_cooldown call
SentIdentity == <<last_send.item.chat_id, last_send.item.message_id>>

C38_BoundedRetryThenNone ==
    /\ request.result # "AttributeError"
    /\ (request.pc = "idle" /\ request.made > 0 /\ request.transient) =>
           /\ request.result = "None"
           /\ \A u \in Urls : request.sends[u] = RetriesPerUrl
    /\ request.result = "200" => current_url_index = 0

\* C39: the announcements of one content of a review that the platform
\* accepted are at most one, whichever checker and whichever call of
\* check_new_reviews made them.
C39_AnnouncedOncePerContent ==
    \A c \in Contents : announced[c] <= 1

\* the entry of topics whose thread is t, if there is one
KnownThread(tp, t) == \E key \in DOMAIN tp : tp[key].topic_id = t

\* C40: a send to the buyer starts only for the text of a thread that is
\* not a command, was not posted by a bot, and was written in a thread that
\* has a ThreadEntry, and it goes to the purchase of that entry; a text that
\* starts with '/', a text of a thread without an entry and a text of a bot
\* start no send.
C40_OnlyPlainOperatorTextIsRelayed ==
    [][(topic_message.pc # "send" /\ topic_message'.pc = "send")
        => /\ topic_message'.handled = topic_message.handled + 1
           /\ ~last_update'.is_bot
           /\ ~last_update'.command
           /\ last_update'.topic_id = topic_message'.topic_id
           /\ \E key \in DOMAIN topics :
                 /\ topics[key].topic_id = last_update'.topic_id
                 /\ topics[key].invoice_id = topic_message'.invoice_id]_vars

\* a bot has posted a plain text in the thread of a purchase, the handler
\* has dealt with it, and nothing is on its way to the buyer
C40_Witness ==
    /\ last_update.is_bot
    /\ ~last_update.command
    /\ KnownThread(topics, last_update.topic_id)
    /\ topic_message.handled >= 2
    /\ topic_message.pc = "idle"
    /\ topic_message.result = "none"
====
